---- MODULE Spec2Model ----
(***************************************************************************)
(* Host-to-accelerator mapping engine of libomptarget (pschen fork):       *)
(* the per-device interval map (HostDataToTargetMap), the shadow pointer   *)
(* table, the mapping lifecycle operations of DeviceTy and the region      *)
(* orchestrator of omptarget.cpp (InitLibrary, target_data_begin,          *)
(* target_data_end, target_data_update).                                   *)
(*                                                                         *)
(* The bodies of the DeviceTy methods (device.cpp) are not among the       *)
(* source files; they are modelled from the specification's section 4 and  *)
(* from what their callers in omptarget.cpp rely on.                       *)
(***************************************************************************)
EXTENDS Integers, Sequences, FiniteSets, TLC

(* ------------------------------ bounds -------------------------------- *)
\* Host addresses form a grid of half-alignment cells above the first
\* aligned address; MaxCells is the number of cells.
MaxCells == 3
\* Cap on the number of references one call sequence stacks on an entry.
MaxRef == 2
\* Cap on the pointer patches queued on the bulk path.
MaxPending == 2
\* The plugin may fail any one of the first MaxFail allocations and any one
\* of the first MaxFail transfers of a call.
MaxFail == 1
\* Cap on the number of the call of computeRegion that fails.
MaxRegions == 2
\* Cap on the number of region calls with nested descriptors of one run.
MaxNested == 2
\* Cap on the number of region calls of one run.
MaxCalls == 3
\* Cap on the number of kernel launches of one run.
MaxLaunches == 2
\* Cap on the number of segments of a translation table.
MaxSegs == 2
\* Cap on the iterations of the search of AddrTrans that are followed.
MaxIter == 3
\* The number of host threads that call into the library.
MaxThreads == 2

(* -------------------------- program constants ------------------------- *)
alignment == 8
SizeofPtr == 8
NULL == 0
\* LONG_MAX, of a 32-bit long.
LONG_MAX == 2147483647
INF_REF_CNT == LONG_MAX \div 2
CONSIDERED_INF(x) == x > (INF_REF_CNT \div 2)

OFFLOAD_SUCCESS == "OFFLOAD_SUCCESS"
OFFLOAD_FAIL == "OFFLOAD_FAIL"

Cell == alignment \div 2
HostLo == alignment
HostAddrs == {HostLo + Cell * k : k \in 0..MaxCells}
HostHi == HostLo + Cell * MaxCells
Sizes == {Cell * k : k \in 0..MaxCells}
\* Device addresses handed out by the plugin: a fixed displacement of the
\* host hint, so that distinct live host ranges get disjoint device ranges.
TgtDelta == 16 * alignment
GlobalDelta == 32 * alignment

(* --------------------------- libraries -------------------------------- *)
\* Registered libraries (HostEntriesBeginToTransTable), in key order.
Libs == {1}
NumLibs == Cardinality(Libs)
\* The offload entries of library l: a global of its own, a weak global
\* every library declares, a kernel entry (size 0) and the entries of its
\* two constructors, CtorA and CtorB.
CtorA == HostHi + Cell
CtorB == HostHi + 2 * Cell
LibEntries(l) ==
  <<[addr |-> HostLo + Cell * l, size |-> 2 * Cell],
    [addr |-> HostLo + Cell * (l - 1), size |-> 2 * Cell],
    [addr |-> HostLo + Cell * l, size |-> Cell],
    [addr |-> HostLo, size |-> 0],
    [addr |-> CtorA, size |-> 0],
    [addr |-> CtorB, size |-> 0]>>

\* A host range is a persistent global when a library declares it as data.
IsPersistentGlobal(hp, Size) ==
  \E l \in Libs : \E i \in 1..Len(LibEntries(l)) :
    LibEntries(l)[i].addr = hp /\ LibEntries(l)[i].size = Size /\ Size # 0

(* ------------------------- the interval map --------------------------- *)
\* HostDataToTargetTy(BP, B, E, TB): RefCount(1)
HostDataToTargetTy_Zero(BP, B, E, TB) ==
  [HstPtrBase |-> BP, HstPtrBegin |-> B, HstPtrEnd |-> E,
   TgtPtrBegin |-> TB, RefCount |-> 0]
HostDataToTargetTy(BP, B, E, TB) ==
  [HstPtrBase |-> BP, HstPtrBegin |-> B, HstPtrEnd |-> E,
   TgtPtrBegin |-> TB, RefCount |-> 1]
\* HostDataToTargetTy(BP, B, E, TB, RF)
HostDataToTargetTyRF_One(BP, B, E, TB, RF) ==
  [HstPtrBase |-> BP, HstPtrBegin |-> B, HstPtrEnd |-> E,
   TgtPtrBegin |-> TB, RefCount |-> 1]
HostDataToTargetTyRF(BP, B, E, TB, RF) ==
  [HstPtrBase |-> BP, HstPtrBegin |-> B, HstPtrEnd |-> E,
   TgtPtrBegin |-> TB, RefCount |-> RF]

\* H2DCmp: "High <- -> Low"
H2DCmp_Ascending(lhs, rhs) == lhs.HstPtrBegin < rhs.HstPtrBegin
H2DCmp(lhs, rhs) == lhs.HstPtrBegin > rhs.HstPtrBegin

\* std::set<HostDataToTargetTy, H2DCmp>: a sequence kept in comparator
\* order; emplace puts the element before the first one that does not
\* precede it and drops it when an equivalent element is present.
RECURSIVE SetLowerBound(_, _, _)
SetLowerBound(S, e, i) ==
  IF i > Len(S) THEN i
  ELSE IF H2DCmp(S[i], e) THEN SetLowerBound(S, e, i + 1)
  ELSE i
SetEmplace(S, e) ==
  LET k == SetLowerBound(S, e, 1) IN
  IF k <= Len(S) /\ ~H2DCmp(e, S[k]) THEN S
  ELSE SubSeq(S, 1, k - 1) \o <<e>> \o SubSeq(S, k, Len(S))
SetErase(S, i) == SubSeq(S, 1, i - 1) \o SubSeq(S, i + 1, Len(S))

\* LookupResult flags of one entry for the query [hp, hp+Size)
EntryFlags(HT, hp, Size) ==
  [IsContained |-> hp >= HT.HstPtrBegin /\ hp < HT.HstPtrEnd
                   /\ hp + Size <= HT.HstPtrEnd,
   ExtendsBefore |-> hp < HT.HstPtrBegin /\ hp + Size > HT.HstPtrBegin,
   ExtendsAfter |-> hp < HT.HstPtrEnd /\ hp + Size > HT.HstPtrEnd]
AnyFlag(f) == f.IsContained \/ f.ExtendsBefore \/ f.ExtendsAfter

\* DeviceTy::lookupMapping: the first entry, in container order, that the
\* query touches; Entry = 0 stands for the end iterator.
RECURSIVE LookupFrom(_, _, _, _)
LookupFrom(S, hp, Size, i) ==
  IF i > Len(S)
  THEN [IsContained |-> FALSE, ExtendsBefore |-> FALSE,
        ExtendsAfter |-> FALSE, Entry |-> 0]
  ELSE LET f == EntryFlags(S[i], hp, Size) IN
       IF AnyFlag(f)
       THEN [IsContained |-> f.IsContained, ExtendsBefore |-> f.ExtendsBefore,
             ExtendsAfter |-> f.ExtendsAfter, Entry |-> i]
       ELSE LookupFrom(S, hp, Size, i + 1)
lookupMapping(S, hp, Size) == LookupFrom(S, hp, Size, 1)

\* RTL->data_alloc: the plugin returns a device address or NULL.
data_alloc(Size, HstPtr, ok) == IF ok THEN TgtDelta + HstPtr ELSE NULL

\* A request that overlaps a live entry without lying inside it.
ExplicitExtension_Never(lr) == FALSE
ExplicitExtension(lr) == lr.ExtendsBefore \/ lr.ExtendsAfter

\* deallocTgtPtr removes the entry when told to or when no reference is left.
MustErase_Always(HT, ForceDelete) == TRUE
MustErase(HT, ForceDelete) == ForceDelete \/ HT.RefCount <= 0

\* Result of a lifecycle operation: the new map, the returned pointer, the
\* out-flag (IsNew / IsLast) and the driver calls it made.
\* DeviceTy::getOrAllocTgtPtr.  o.alloc: the plugin's allocation succeeds;
\* o.junk: what an out-parameter the callee leaves unassigned holds.
getOrAllocTgtPtr(S, HstPtrBegin, HstPtrBase, Size, IsImplicit, UpdateRefCount, o) ==
  LET lr == lookupMapping(S, HstPtrBegin, Size) IN
  IF lr.IsContained
  THEN LET HT == S[lr.Entry] IN
       [map |-> IF UpdateRefCount
                THEN [S EXCEPT ![lr.Entry].RefCount = @ + 1] ELSE S,
        rc |-> HT.TgtPtrBegin + (HstPtrBegin - HT.HstPtrBegin),
        flag |-> FALSE, cause |-> "hit", drv |-> <<>>]
  ELSE IF ExplicitExtension(lr)
  THEN [map |-> S, rc |-> NULL, flag |-> o.junk, cause |-> "overlap",
        drv |-> <<>>]
  ELSE IF Size = 0
  THEN [map |-> S, rc |-> NULL, flag |-> o.junk, cause |-> "empty",
        drv |-> <<>>]
  ELSE LET tp == data_alloc(Size, HstPtrBegin, o.alloc)
           call == [call |-> "data_alloc", size |-> Size,
                    hst |-> HstPtrBegin, tgt |-> tp]
       IN IF tp = NULL
          THEN [map |-> S, rc |-> NULL, flag |-> o.junk,
                cause |-> "allocfail", drv |-> <<call>>]
          ELSE [map |-> SetEmplace(S,
                   IF IsImplicit /\ IsPersistentGlobal(HstPtrBegin, Size)
                   THEN HostDataToTargetTyRF(HstPtrBase, HstPtrBegin,
                          HstPtrBegin + Size, tp, INF_REF_CNT)
                   ELSE HostDataToTargetTy(HstPtrBase, HstPtrBegin,
                          HstPtrBegin + Size, tp)),
                rc |-> tp, flag |-> TRUE, cause |-> "new", drv |-> <<call>>]

\* DeviceTy::getTgtPtrBegin(HstPtrBegin, Size, IsLast, UpdateRefCount)
getTgtPtrBeginRef(S, HstPtrBegin, Size, UpdateRefCount) ==
  LET lr == lookupMapping(S, HstPtrBegin, Size) IN
  IF AnyFlag(lr)
  THEN LET HT == S[lr.Entry]
           dec == UpdateRefCount /\ HT.RefCount > 0
           after == IF dec THEN HT.RefCount - 1 ELSE HT.RefCount
       IN [map |-> [S EXCEPT ![lr.Entry].RefCount = after],
           rc |-> HT.TgtPtrBegin + (HstPtrBegin - HT.HstPtrBegin),
           flag |-> UpdateRefCount /\ after = 0, cause |-> "hit",
           drv |-> <<>>]
  ELSE [map |-> S, rc |-> NULL, flag |-> FALSE, cause |-> "miss",
        drv |-> <<>>]

\* DeviceTy::getTgtPtrBegin(HstPtrBegin, Size): lookup only
getTgtPtrBegin(S, HstPtrBegin, Size) ==
  getTgtPtrBeginRef(S, HstPtrBegin, Size, FALSE).rc

\* DeviceTy::getMapEntryRefCnt
getMapEntryRefCnt(S, HstPtrBegin) ==
  LET lr == lookupMapping(S, HstPtrBegin, 0) IN
  IF lr.IsContained THEN S[lr.Entry].RefCount ELSE 0 - 1

\* DeviceTy::deallocTgtPtr
deallocTgtPtr(S, HstPtrBegin, Size, ForceDelete) ==
  LET lr == lookupMapping(S, HstPtrBegin, Size) IN
  IF AnyFlag(lr)
  THEN LET HT == S[lr.Entry] IN
       IF MustErase(HT, ForceDelete)
       THEN [map |-> SetErase(S, lr.Entry), rc |-> OFFLOAD_SUCCESS,
             flag |-> TRUE, cause |-> "erased",
             drv |-> <<[call |-> "data_delete", tgt |-> HT.TgtPtrBegin]>>]
       ELSE [map |-> S, rc |-> OFFLOAD_SUCCESS, flag |-> FALSE,
             cause |-> "kept", drv |-> <<>>]
  ELSE [map |-> S, rc |-> OFFLOAD_FAIL, flag |-> FALSE, cause |-> "miss",
        drv |-> <<>>]

(* ---------------------- InitLibrary ---------------------------------- *)
\* InitLibrary: "if (Device.getTgtPtrBegin(addr, size)) continue;"
GlobalAlreadyMapped_Never(S, e) == FALSE
GlobalAlreadyMapped(S, e) == getTgtPtrBegin(S, e.addr, e.size) # NULL

\* InitLibrary: "process global data that needs to be mapped"
RECURSIVE MapGlobals(_, _, _)
MapGlobals(S, entries, i) ==
  IF i > Len(entries) THEN S
  ELSE LET e == entries[i] IN
       IF e.size # 0 /\ ~GlobalAlreadyMapped(S, e)
       THEN MapGlobals(
              SetEmplace(S, HostDataToTargetTyRF(e.addr, e.addr,
                              e.addr + e.size, GlobalDelta + e.addr,
                              INF_REF_CNT)),
              entries, i + 1)
       ELSE MapGlobals(S, entries, i + 1)

\* InitLibrary, the loop over the translation tables.  st: [map, reg,
\* table, image]; o.load[l] is what loading library l's image yields:
\* "ok", "fail" (load_binary returns null) or "mismatch" (table sizes differ).
RECURSIVE InitLibraryTables(_, _, _)
InitLibraryTables(st, o, l) ==
  IF l > NumLibs THEN [st EXCEPT !.rc = OFFLOAD_SUCCESS]
  ELSE IF ~st.reg[l] \/ st.table[l] THEN InitLibraryTables(st, o, l + 1)
  ELSE IF ~st.image[l] THEN [st EXCEPT !.rc = OFFLOAD_FAIL]
  ELSE IF o.load[l] = "fail"
  THEN [st EXCEPT !.image[l] = FALSE, !.rc = OFFLOAD_FAIL]
  ELSE IF o.load[l] = "mismatch"
  THEN [st EXCEPT !.image[l] = FALSE, !.table[l] = FALSE,
                  !.rc = OFFLOAD_FAIL]
  ELSE InitLibraryTables(
         [st EXCEPT !.table[l] = TRUE,
                    !.map = MapGlobals(st.map, LibEntries(l), 1)],
         o, l + 1)

\* InitLibrary, "Run ctors for static objects": o.ctor[l] tells whether the
\* target() calls for library l's pending constructors succeed.
RECURSIVE InitLibraryCtors(_, _, _)
InitLibraryCtors(st, o, l) ==
  IF l > NumLibs THEN [st EXCEPT !.pending = FALSE, !.rc = OFFLOAD_SUCCESS]
  ELSE IF ~st.ctors[l] THEN InitLibraryCtors(st, o, l + 1)
  ELSE IF ~o.ctor[l] THEN [st EXCEPT !.rc = OFFLOAD_FAIL]
  ELSE InitLibraryCtors([st EXCEPT !.ctors[l] = FALSE], o, l + 1)

InitLibrary(st, o) ==
  LET t == InitLibraryTables(st, o, 1) IN
  IF t.rc # OFFLOAD_SUCCESS THEN t ELSE InitLibraryCtors(t, o, 1)

(* --------------------- memory and the shadow table -------------------- *)
\* Memory is a function from cell addresses to cell values.  A pointer takes
\* SizeofPtr bytes: its low cell holds the address, its high cell is zero.
ReadCell(mem, a) == IF a \in DOMAIN mem THEN mem[a] ELSE 0
ReadPtr(mem, a) == ReadCell(mem, a)
CellsOf(mem, a, Size) == [j \in 1..(Size \div Cell) |-> ReadCell(mem, a + Cell * (j - 1))]
PtrCells(v) == <<v, 0>>
WriteCells(mem, a, cells) ==
  [x \in DOMAIN mem |->
     IF \E j \in 1..Len(cells) : x = a + Cell * (j - 1)
     THEN cells[(x - a) \div Cell + 1] ELSE mem[x]]

\* The transfer with this ordinal number is the one the plugin fails
\* (0: none fails).
XferOk(st, o) == st.nxfer + 1 # o.failXfer

\* DeviceTy::data_submit: RTL->data_submit(TgtPtrBegin, HstPtrBegin, Size)
data_submit(st, TgtPtrBegin, cells, Size, o) ==
  LET ok == XferOk(st, o) IN
  [st EXCEPT !.dev = IF ok THEN WriteCells(st.dev, TgtPtrBegin, cells) ELSE @,
             !.nxfer = @ + 1,
             !.rc = IF ok THEN OFFLOAD_SUCCESS ELSE OFFLOAD_FAIL,
             !.drv = Append(@, [call |-> "data_submit", tgt |-> TgtPtrBegin,
                                size |-> Size])]

\* DeviceTy::data_retrieve: RTL->data_retrieve(HstPtrBegin, TgtPtrBegin, Size)
data_retrieve(st, HstPtrBegin, TgtPtrBegin, Size, o) ==
  LET ok == XferOk(st, o) IN
  [st EXCEPT !.host = IF ok /\ TgtPtrBegin \in DOMAIN st.dev
                      THEN WriteCells(st.host, HstPtrBegin,
                                      CellsOf(st.dev, TgtPtrBegin, Size))
                      ELSE @,
             !.nxfer = @ + 1,
             !.rc = IF ok THEN OFFLOAD_SUCCESS ELSE OFFLOAD_FAIL,
             !.drv = Append(@, [call |-> "data_retrieve", tgt |-> TgtPtrBegin,
                                hst |-> HstPtrBegin, size |-> Size])]

\* ShadowPtrListTy: std::map<void *, ShadowPtrValTy, std::greater<void *>>,
\* a sequence of entries in iteration order (highest slot address first).
ShadowPtrValTy(key, HstPtrVal, TgtPtrAddr, TgtPtrVal) ==
  [HstPtrAddr |-> key, HstPtrVal |-> HstPtrVal, TgtPtrAddr |-> TgtPtrAddr,
   TgtPtrVal |-> TgtPtrVal]

\* ShadowPtrMap.upper_bound(ub): the first entry that std::greater orders
\* strictly after ub.
RECURSIVE ShadowUpperBound(_, _, _)
ShadowUpperBound(M, ub, i) ==
  IF i > Len(M) THEN i
  ELSE IF M[i].HstPtrAddr < ub THEN i
  ELSE ShadowUpperBound(M, ub, i + 1)

\* ShadowPtrMap[key] = val
ShadowAssign(M, e) ==
  LET k == ShadowUpperBound(M, e.HstPtrAddr + 1, 1) IN
  IF k <= Len(M) /\ M[k].HstPtrAddr = e.HstPtrAddr
  THEN [M EXCEPT ![k] = e]
  ELSE SubSeq(M, 1, k - 1) \o <<e>> \o SubSeq(M, k, Len(M))

(* --------------------------- map-type flags --------------------------- *)
\* An argument is [base, begin, size, type]; its type is the set of
\* OMP_TGT_MAPTYPE flags it carries and the MEMBER_OF field (0: none).
MapFlags == {"TO", "FROM", "ALWAYS", "DELETE", "PTR_AND_OBJ", "IMPLICIT",
             "LITERAL", "PRIVATE", "TARGET_PARAM", "NESTED"}
Has(type, f) == f \in type.flags
IsMemberOf(type) == type.member # 0
\* member_of: ((type & OMP_TGT_MAPTYPE_MEMBER_OF) >> 48) - 1
member_of(type) == type.member - 1
Arg(base, begin, size, flags, member) ==
  [base |-> base, begin |-> begin, size |-> size,
   type |-> [flags |-> flags, member |-> member]]

\* "Adjust for proper alignment if this is a combined entry (for structs)":
\* k is the argument's position counted from 1.
PaddingOf_Always(type, al, k, HstPtrBegin) == HstPtrBegin % alignment

\* The test names the type whose MEMBER_OF field it reads: arg_types[i] in
\* target_data_begin and target_data_end, data_type in
\* bulk_target_data_begin.
PaddingOf(type, al, k, HstPtrBegin) ==
  IF member_of(type) < 0 /\ k + 1 <= Len(al)
     /\ member_of(al[k + 1].type) = k - 1
  THEN HstPtrBegin % alignment ELSE 0

Padding(al, k) == PaddingOf(al[k].type, al, k, al[k].begin)

(* -------------------------- nested descriptors ------------------------ *)
\* An argument flagged NESTED is regenerated from a descriptor object: the
\* descriptor is the result of newRttObject, the regions computeRegion
\* yields one call after the other, each a (base, begin, size, type), and
\* the number of the call of computeRegion that fails (0: none).
RTT_SUCCESS == "RTT_SUCCESS"
RTT_END == "RTT_END"
RTT_FAIL == "RTT_FAIL"
newRttObject(rtt) == rtt.init
computeRegion(rtt, j) ==
  IF j = rtt.fail THEN [ret |-> RTT_FAIL, region |-> <<>>]
  ELSE IF j > Len(rtt.regions) THEN [ret |-> RTT_END, region |-> <<>>]
  ELSE [ret |-> RTT_SUCCESS, region |-> rtt.regions[j]]
\* The calls of the descriptor a region call records.
RttCall(st, name, k, ret) ==
  [st EXCEPT !.drv = Append(@, [call |-> name, arg |-> k, ret |-> ret])]

(* ------------------------ target_data_begin --------------------------- *)
\* The one element of a singleton set.  Once({F(x) : x \in {e}}) is F(e) with
\* e evaluated a single time, as a statement sequence evaluates it.
Once(S) == CHOOSE y \in S : TRUE

\* A region call threads a record st through its steps: the device's map,
\* shadow table, pending lists and mode flags, both memories, the number of
\* allocations and transfers requested so far, the result code and the
\* sequence drv of the calls made.  o.failAlloc / o.failXfer number the
\* allocation / transfer the plugin fails; o.junk is the value an
\* out-parameter holds when the callee leaves it unassigned.
CallGetOrAlloc(st, HstPtrBegin, HstPtrBase, Size, IsImplicit, UpdateRef, o) ==
  Once({[st |-> [st EXCEPT !.map = r.map, !.nalloc = @ + Len(r.drv),
                           !.drv = @ \o r.drv \o
                             <<[call |-> "getOrAllocTgtPtr",
                                hst |-> HstPtrBegin, size |-> Size,
                                rc |-> r.rc, cause |-> r.cause]>>],
         rc |-> r.rc, IsNew |-> r.flag] :
        r \in {getOrAllocTgtPtr(st.map, HstPtrBegin, HstPtrBase, Size,
                 IsImplicit, UpdateRef,
                 [alloc |-> st.nalloc + 1 # o.failAlloc, junk |-> o.junk])}})

\* "Copy data only if the "parent" struct has RefCount==1."
ParentRefCnt(S, al, type) == getMapEntryRefCnt(S, al[member_of(type) + 1].begin)

CopyMember_Always(parent_rc) == TRUE

\* "if (parent_rc == 1) { copy = true; }"
CopyMember(parent_rc) == parent_rc = 1

CopyTo_Unflagged(type, IsNew, S, al) ==
  \/ IsNew
  \/ Has(type, "ALWAYS")
  \/ /\ IsMemberOf(type)
     /\ CopyMember(ParentRefCnt(S, al, type))

\* target_data_begin, "bool copy": whether the argument is sent to the device.
CopyTo(type, IsNew, S, al) ==
  /\ Has(type, "TO")
  /\ \/ IsNew
     \/ Has(type, "ALWAYS")
     \/ /\ IsMemberOf(type)
        /\ CopyMember(ParentRefCnt(S, al, type))

IsDelEntry_Unprotected(type, IsLast) == IsLast \/ Has(type, "DELETE")

\* target_data_end, "bool DelEntry": a member that is not a pointer never
\* deletes, "protect parent struct from being deallocated".
IsDelEntry(type, IsLast) ==
  /\ IsLast \/ Has(type, "DELETE")
  /\ ~(IsMemberOf(type) /\ ~Has(type, "PTR_AND_OBJ"))

CopyFrom_LastOnly(type, DelEntry, S, al) == Has(type, "FROM") /\ DelEntry

\* target_data_end, "if (DelEntry || Always || CopyMember)" under FROM.
CopyFrom(type, DelEntry, S, al) ==
  /\ Has(type, "FROM")
  /\ \/ DelEntry
     \/ Has(type, "ALWAYS")
     \/ /\ IsMemberOf(type) /\ ~Has(type, "PTR_AND_OBJ")
        /\ CopyMember(ParentRefCnt(S, al, type))

TgtPtrBaseOf_Begin(TgtPtrBegin, HstPtrBegin, HstPtrBase) == TgtPtrBegin

\* "uint64_t Delta = (uint64_t)HstPtrBegin - (uint64_t)HstPtrBase;
\*  void *TgtPtrBase = (void *)((uint64_t)TgtPtrBegin - Delta);"
TgtPtrBaseOf(TgtPtrBegin, HstPtrBegin, HstPtrBase) ==
  TgtPtrBegin - (HstPtrBegin - HstPtrBase)

\* The body of the loop of target_data_begin for argument k (from 1), on the
\* (base, begin, size, type) t of the argument or of a region of it.
BeginTuple(st, al, k, t, o) ==
  LET data_type == t.type
      padding == PaddingOf(al[k].type, al, k, t.begin)
      HstPtrBegin == t.begin - padding
      data_size == t.size + padding
      IsImplicit == Has(data_type, "IMPLICIT")
      IsPtr == Has(data_type, "PTR_AND_OBJ")
      HstPtrBase == IF IsPtr THEN ReadPtr(st.host, t.base) ELSE t.base
      UpdateRef == IsPtr \/ ~IsMemberOf(data_type)
      Delta == HstPtrBegin - HstPtrBase
      \* the pointer slot of a PTR_AND_OBJ argument
      Pointer ==
        IF IsPtr
        THEN CallGetOrAlloc(st, t.base, t.base, SizeofPtr, IsImplicit,
                            ~IsMemberOf(data_type), o)
        ELSE [st |-> st, rc |-> NULL, IsNew |-> FALSE]
      \* the pointer patch and the shadow entry
      Patch(st2, Pointer_TgtPtrBegin, TgtPtrBase) ==
        Once({IF st3.rc # OFFLOAD_SUCCESS THEN st3
              ELSE [st3 EXCEPT !.shadow =
                      ShadowAssign(@, ShadowPtrValTy(t.base, HstPtrBase,
                                       Pointer_TgtPtrBegin, TgtPtrBase))] :
              st3 \in {data_submit(st2, Pointer_TgtPtrBegin,
                                   PtrCells(TgtPtrBase), SizeofPtr, o)}})
      \* the copy to the device
      Copy(g, Pointer_TgtPtrBegin) ==
        LET copy == CopyTo(data_type, g.IsNew, g.st.map, al)
        IN Once({IF copy /\ st2.rc # OFFLOAD_SUCCESS THEN st2
                 ELSE IF ~IsPtr THEN st2
                 ELSE Patch(st2, Pointer_TgtPtrBegin,
                            TgtPtrBaseOf(g.rc, HstPtrBegin, HstPtrBase)) :
                 st2 \in {IF copy
                          THEN data_submit(g.st, g.rc,
                                 CellsOf(g.st.host, HstPtrBegin, data_size),
                                 data_size, o)
                          ELSE g.st}})
  IN Once({IF IsPtr /\ p.rc = NULL
           THEN [p.st EXCEPT !.rc = OFFLOAD_FAIL]
           ELSE Once({Copy(g, p.rc) :
                      g \in {CallGetOrAlloc(p.st, HstPtrBegin, HstPtrBase,
                               data_size, IsImplicit, UpdateRef, o)}}) :
           p \in {Pointer}})

BeginArg(st, al, k, o) == BeginTuple(st, al, k, al[k], o)

\* DeviceTy::bulk_data_submit: the range joins the segment list and is sent
\* by the next bulk transfer.
bulk_data_submit(st, HstPtrBegin, Size) ==
  [st EXCEPT !.seg = @ \cup {[HstPtrBegin |-> HstPtrBegin,
                              HstPtrEnd |-> HstPtrBegin + Size]},
             !.rc = OFFLOAD_SUCCESS,
             !.drv = Append(@, [call |-> "bulk_data_submit",
                                hst |-> HstPtrBegin, size |-> Size])]

\* DeviceTy::suspend_update: the pointer patch is queued.
suspend_update(st, HstPtrAddr, HstPtrValue, Delta, HstPtrBase) ==
  [st EXCEPT !.upd = Append(@, [PtrBaseAddr |-> HstPtrAddr,
                                PtrValue |-> HstPtrValue, Delta |-> Delta,
                                HstPtrBase |-> HstPtrBase]),
             !.rc = OFFLOAD_SUCCESS,
             !.drv = Append(@, [call |-> "suspend_update",
                                hst |-> HstPtrAddr, obj |-> HstPtrValue])]

QueuePatch_Skip(st, Pointer_HstPtrBegin, HstPtrBegin, HstPtrBase) == st

\* bulk_target_data_begin: the patch of a pointer-and-object argument is
\* queued, "Device.suspend_update(Pointer_HstPtrBegin, HstPtrBegin, Delta,
\* HstPtrBase)".
QueuePatch(st, Pointer_HstPtrBegin, HstPtrBegin, HstPtrBase) ==
  suspend_update(st, Pointer_HstPtrBegin, HstPtrBegin,
                 HstPtrBegin - HstPtrBase, HstPtrBase)

\* The body of the loop of bulk_target_data_begin for argument k.
BulkBeginTuple(st, al, k, t, o) ==
  LET data_type == t.type
      padding == PaddingOf(t.type, al, k, t.begin)
      HstPtrBegin == t.begin - padding
      data_size == t.size + padding
      IsImplicit == Has(data_type, "IMPLICIT")
      IsPtr == Has(data_type, "PTR_AND_OBJ")
      HstPtrBase == IF IsPtr THEN ReadPtr(st.host, t.base) ELSE t.base
      UpdateRef == IsPtr \/ ~IsMemberOf(data_type)
      Delta == HstPtrBegin - HstPtrBase
      Pointer ==
        IF IsPtr
        THEN CallGetOrAlloc(st, t.base, t.base, SizeofPtr, IsImplicit,
                            ~IsMemberOf(data_type), o)
        ELSE [st |-> st, rc |-> NULL, IsNew |-> FALSE]
      Copy(g) ==
        LET copy == CopyTo(data_type, g.IsNew, g.st.map, al)
        IN Once({IF st.at \/ ~IsPtr THEN st2
                 ELSE QueuePatch(st2, t.base, HstPtrBegin, HstPtrBase) :
                 st2 \in {IF copy
                          THEN bulk_data_submit(g.st, HstPtrBegin, data_size)
                          ELSE g.st}})
  IN Once({IF IsPtr /\ p.rc = NULL
           THEN [p.st EXCEPT !.rc = OFFLOAD_FAIL]
           ELSE Once({IF g.rc = NULL /\ data_size # 0
                      THEN [g.st EXCEPT !.rc = OFFLOAD_FAIL]
                      ELSE Copy(g) :
                      g \in {CallGetOrAlloc(p.st, HstPtrBegin, HstPtrBase,
                               data_size, IsImplicit, UpdateRef, o)}}) :
           p \in {Pointer}})

BulkBeginArg(st, al, k, o) == BulkBeginTuple(st, al, k, al[k], o)

Skipped(type) == Has(type, "LITERAL") \/ Has(type, "PRIVATE")

\* bulk_target_data_begin, DCGEN_REPEAT: call j of computeRegion and the body of the loop on
\* the region it yields; the body jumps back while the type of the region
\* carries NESTED.
RECURSIVE BulkBeginRepeat(_, _, _, _, _)
BulkBeginRepeat(st, al, k, j, o) ==
  LET c == computeRegion(o.rtt, j)
      s0 == RttCall(st, "computeRegion", k, c.ret)
  IN IF c.ret = RTT_END THEN s0
     ELSE IF c.ret # RTT_SUCCESS THEN [s0 EXCEPT !.rc = OFFLOAD_FAIL]
     ELSE Once({IF s1.rc # OFFLOAD_SUCCESS \/ ~Has(c.region.type, "NESTED")
                THEN s1 ELSE BulkBeginRepeat(s1, al, k, j + 1, o) :
                s1 \in {BulkBeginTuple(s0, al, k, c.region, o)}})
\* "ret = Rtt.newRttObject(...); if (ret != RTT_SUCCESS) { ...; continue; }"
BulkBeginNested(st, al, k, o) ==
  LET ret == newRttObject(o.rtt)
      s0 == RttCall(st, "newRttObject", k, ret)
  IN IF ret # RTT_SUCCESS THEN s0 ELSE BulkBeginRepeat(s0, al, k, 1, o)

RECURSIVE bulk_target_data_begin(_, _, _, _)
bulk_target_data_begin(st, al, k, o) ==
  IF k > Len(al) THEN [st EXCEPT !.rc = OFFLOAD_SUCCESS]
  ELSE IF Skipped(al[k].type) THEN bulk_target_data_begin(st, al, k + 1, o)
  ELSE Once({IF s1.rc # OFFLOAD_SUCCESS THEN s1
              ELSE bulk_target_data_begin(s1, al, k + 1, o) :
              s1 \in {IF Has(al[k].type, "NESTED")
                      THEN BulkBeginNested(st, al, k, o)
                      ELSE BulkBeginArg(st, al, k, o)}})

\* target_data_begin, DCGEN_REPEAT: call j of computeRegion and the body of the loop on
\* the region it yields; the body jumps back while the type of the region
\* carries NESTED.
RECURSIVE BeginRepeat(_, _, _, _, _)
BeginRepeat(st, al, k, j, o) ==
  LET c == computeRegion(o.rtt, j)
      s0 == RttCall(st, "computeRegion", k, c.ret)
  IN IF c.ret = RTT_END THEN s0
     ELSE IF c.ret # RTT_SUCCESS THEN [s0 EXCEPT !.rc = OFFLOAD_FAIL]
     ELSE Once({IF s1.rc # OFFLOAD_SUCCESS \/ ~Has(c.region.type, "NESTED")
                THEN s1 ELSE BeginRepeat(s1, al, k, j + 1, o) :
                s1 \in {BeginTuple(s0, al, k, c.region, o)}})
\* "ret = Rtt.newRttObject(...); if (ret != RTT_SUCCESS) { ...; continue; }"
BeginNested(st, al, k, o) ==
  LET ret == newRttObject(o.rtt)
      s0 == RttCall(st, "newRttObject", k, ret)
  IN IF ret # RTT_SUCCESS THEN s0 ELSE BeginRepeat(s0, al, k, 1, o)


\* A loop that undoes what the call did when an argument fails.
RECURSIVE BeginLoop_Rollback(_, _, _, _)
BeginLoop_Rollback(st, al, k, o) ==
  IF k > Len(al) THEN [st EXCEPT !.rc = OFFLOAD_SUCCESS]
  ELSE IF Skipped(al[k].type) THEN BeginLoop_Rollback(st, al, k + 1, o)
  ELSE Once({IF s1.rc # OFFLOAD_SUCCESS THEN [st EXCEPT !.rc = OFFLOAD_FAIL]
              ELSE Once({IF s2.rc # OFFLOAD_SUCCESS
                         THEN [st EXCEPT !.rc = OFFLOAD_FAIL] ELSE s2 :
                         s2 \in {BeginLoop_Rollback(s1, al, k + 1, o)}}) :
              s1 \in {BeginArg(st, al, k, o)}})

\* target_data_begin, "process each input": the loop returns at the first
\* argument that fails.
RECURSIVE BeginLoop(_, _, _, _)
BeginLoop(st, al, k, o) ==
  IF k > Len(al) THEN [st EXCEPT !.rc = OFFLOAD_SUCCESS]
  ELSE IF Skipped(al[k].type) THEN BeginLoop(st, al, k + 1, o)
  ELSE Once({IF s1.rc # OFFLOAD_SUCCESS THEN s1
              ELSE BeginLoop(s1, al, k + 1, o) :
              s1 \in {IF Has(al[k].type, "NESTED")
                      THEN BeginNested(st, al, k, o)
                      ELSE BeginArg(st, al, k, o)}})

target_data_begin(st, al, o) ==
  IF st.bulk THEN bulk_target_data_begin(st, al, 1, o)
  ELSE BeginLoop(st, al, 1, o)

(* ------------------ target_data_end, target_data_update --------------- *)
\* The restoration loop of target_data_end from iterator position i: it
\* breaks at the first slot below lb, restores the host slot of a copy-from
\* argument and erases the entry when the mapping goes away.
RECURSIVE ShadowScan(_, _, _, _, _)
ShadowScan(st, i, lb, IsFrom, DelEntry) ==
  IF i > Len(st.shadow) THEN st
  ELSE IF st.shadow[i].HstPtrAddr < lb THEN st
  ELSE LET e == st.shadow[i]
           s1 == [st EXCEPT
                    !.host = IF IsFrom
                             THEN WriteCells(@, e.HstPtrAddr, PtrCells(e.HstPtrVal))
                             ELSE @,
                    !.shadow = IF DelEntry THEN SubSeq(@, 1, i - 1) \o
                                                 SubSeq(@, i + 1, Len(@))
                               ELSE @,
                    !.drv = Append(@, [call |-> "shadow", slot |-> e.HstPtrAddr,
                                       restored |-> IsFrom,
                                       erased |-> DelEntry])]
       IN Once({ShadowScan(s2, IF DelEntry THEN i ELSE i + 1, lb, IsFrom,
                           DelEntry) : s2 \in {s1}})

\* DeviceTy::bulkGetTgtPtrBegin: the device address of a host range the
\* segment list covers.
bulkGetTgtPtrBegin(st, HstPtrBegin, Size) ==
  IF \E sg \in st.seg : sg.HstPtrBegin <= HstPtrBegin
                        /\ HstPtrBegin + Size <= sg.HstPtrEnd
  THEN TgtDelta + HstPtrBegin ELSE NULL

\* The body of the loop of target_data_end for argument k (from 1).
EndTuple(st, al, k, t, o) ==
  LET data_type == t.type
      padding == PaddingOf(al[k].type, al, k, t.begin)
      HstPtrBegin == t.begin - padding
      data_size == t.size + padding
      IsPtr == Has(data_type, "PTR_AND_OBJ")
      IsFrom == Has(data_type, "FROM")
      UpdateRef == ~IsMemberOf(data_type) \/ IsPtr
      ForceDelete == Has(data_type, "DELETE")
      lb == HstPtrBegin
      ub == HstPtrBegin + data_size
      \* "Deallocate map"
      Dealloc(st3) ==
        Once({[st3 EXCEPT !.map = d.map, !.drv = @ \o d.drv, !.rc = d.rc] :
              d \in {deallocTgtPtr(st3.map, HstPtrBegin, data_size,
                                   ForceDelete)}})
      \* the restoration of the shadow pointers, skipped in AT mode
      Restore(st2, DelEntry) ==
        Once({IF ~DelEntry THEN st3 ELSE Dealloc(st3) :
              st3 \in {IF st.at THEN st2
                       ELSE ShadowScan(st2, ShadowUpperBound(st2.shadow, ub, 1),
                                       lb, IsFrom, DelEntry)}})
      \* "Move data back to the host"
      Retrieve(g) ==
        LET IsLast == IF g.cause = "miss" THEN o.junk ELSE g.flag
            TgtPtrBegin == IF st.bulk
                           THEN bulkGetTgtPtrBegin(st, HstPtrBegin, data_size)
                           ELSE g.rc
            DelEntry == IsDelEntry(data_type, IsLast)
            copy == CopyFrom(data_type, DelEntry, g.map, al)
        IN Once({IF ~(IsFrom \/ DelEntry) THEN st1
                 ELSE Once({IF copy /\ st2.rc # OFFLOAD_SUCCESS THEN st2
                            ELSE Restore(st2, DelEntry) :
                            st2 \in {IF copy
                                     THEN data_retrieve(st1, HstPtrBegin,
                                            TgtPtrBegin, data_size, o)
                                     ELSE st1}}) :
                 st1 \in {[st EXCEPT
                             !.map = g.map,
                             !.drv = Append(@, [call |-> "getTgtPtrBegin",
                                       hst |-> HstPtrBegin,
                                       size |-> data_size, rc |-> g.rc,
                                       IsLast |-> IsLast, from |-> IsFrom,
                                       force |-> ForceDelete,
                                       del |-> DelEntry])]}})
  IN Once({Retrieve(g) :
           g \in {getTgtPtrBeginRef(st.map, HstPtrBegin, data_size,
                                    UpdateRef)}})

EndArg(st, al, k, o) == EndTuple(st, al, k, al[k], o)

\* target_data_end, DCGEN_REPEAT: call j of computeRegion and the body of the loop on
\* the region it yields; the body jumps back while the type of the region
\* carries NESTED.
RECURSIVE EndRepeat(_, _, _, _, _)
EndRepeat(st, al, k, j, o) ==
  LET c == computeRegion(o.rtt, j)
      s0 == RttCall(st, "computeRegion", k, c.ret)
  IN IF c.ret = RTT_END THEN s0
     ELSE IF c.ret # RTT_SUCCESS THEN [s0 EXCEPT !.rc = OFFLOAD_FAIL]
     ELSE Once({IF s1.rc # OFFLOAD_SUCCESS \/ ~Has(c.region.type, "NESTED")
                THEN s1 ELSE EndRepeat(s1, al, k, j + 1, o) :
                s1 \in {EndTuple(s0, al, k, c.region, o)}})
\* "ret = Rtt.newRttObject(...); if (ret != RTT_SUCCESS) { ...; continue; }"
EndNested(st, al, k, o) ==
  LET ret == newRttObject(o.rtt)
      s0 == RttCall(st, "newRttObject", k, ret)
  IN IF ret # RTT_SUCCESS THEN s0 ELSE EndRepeat(s0, al, k, 1, o)

\* The arguments processed first to last.
RECURSIVE EndUp(_, _, _, _)
EndUp(st, al, k, o) ==
  IF k > Len(al) THEN [st EXCEPT !.rc = OFFLOAD_SUCCESS]
  ELSE IF Skipped(al[k].type) THEN EndUp(st, al, k + 1, o)
  ELSE Once({IF s1.rc # OFFLOAD_SUCCESS THEN s1
              ELSE EndUp(s1, al, k + 1, o) :
              s1 \in {EndArg(st, al, k, o)}})
EndLoop_Ascending(st, al, k, o) == EndUp(st, al, 1, o)

\* target_data_end: the arguments are processed last to first.
RECURSIVE EndLoop(_, _, _, _)
EndLoop(st, al, k, o) ==
  IF k < 1 THEN [st EXCEPT !.rc = OFFLOAD_SUCCESS]
  ELSE IF Skipped(al[k].type) THEN EndLoop(st, al, k - 1, o)
  ELSE Once({IF s1.rc # OFFLOAD_SUCCESS THEN s1
              ELSE EndLoop(s1, al, k - 1, o) :
              s1 \in {IF Has(al[k].type, "NESTED")
                      THEN EndNested(st, al, k, o)
                      ELSE EndArg(st, al, k, o)}})

target_data_end(st, al, o) == EndLoop(st, al, Len(al), o)

\* The two loops of target_data_update over the shadow entries of [lb, ub):
\* after a copy from the device the host slots are restored, after a copy
\* to the device the device slots are.
UpdateRestoreHost_Skip(st, i, lb) == st

RECURSIVE UpdateRestoreHost(_, _, _)
UpdateRestoreHost(st, i, lb) ==
  IF i > Len(st.shadow) THEN st
  ELSE IF st.shadow[i].HstPtrAddr < lb THEN st
  ELSE Once({UpdateRestoreHost(s1, i + 1, lb) :
              s1 \in {[st EXCEPT
                         !.host = WriteCells(@, st.shadow[i].HstPtrAddr,
                                             PtrCells(st.shadow[i].HstPtrVal)),
                         !.drv = Append(@, [call |-> "shadow",
                                            slot |-> st.shadow[i].HstPtrAddr,
                                            restored |-> TRUE,
                                            erased |-> FALSE])]}})

RECURSIVE UpdateRestoreTgt(_, _, _, _)
UpdateRestoreTgt(st, i, lb, o) ==
  IF i > Len(st.shadow) THEN st
  ELSE IF st.shadow[i].HstPtrAddr < lb THEN st
  ELSE Once({IF s1.rc # OFFLOAD_SUCCESS THEN s1
              ELSE UpdateRestoreTgt(s1, i + 1, lb, o) :
              s1 \in {data_submit(st, st.shadow[i].TgtPtrAddr,
                                  PtrCells(st.shadow[i].TgtPtrVal),
                                  SizeofPtr, o)}})

\* target_data_update: "if (!TgtPtrBegin) ... not found, becomes a noop"
NotFound_Never(TgtPtrBegin) == FALSE
NotFound(TgtPtrBegin) == TgtPtrBegin = NULL

UpdateLookup_Counting(S, HstPtrBegin, MapSize) ==
  getTgtPtrBeginRef(S, HstPtrBegin, MapSize, TRUE)

\* "Device.getTgtPtrBegin(HstPtrBegin, MapSize, IsLast, false)"
UpdateLookup(S, HstPtrBegin, MapSize) ==
  getTgtPtrBeginRef(S, HstPtrBegin, MapSize, FALSE)

\* The body of the loop of target_data_update for argument k.
UpdateArg(st, al, k, o) ==
  LET HstPtrBegin == al[k].begin
      MapSize == al[k].size
      lb == HstPtrBegin
      ub == HstPtrBegin + MapSize
      \* OMP_TGT_MAPTYPE_TO
      To(st1, TgtPtrBegin) ==
        IF st1.rc # OFFLOAD_SUCCESS \/ ~Has(al[k].type, "TO") THEN st1
        ELSE Once({IF s2.rc # OFFLOAD_SUCCESS THEN s2
                   ELSE UpdateRestoreTgt(s2,
                          ShadowUpperBound(s2.shadow, ub, 1), lb, o) :
                   s2 \in {data_submit(st1, TgtPtrBegin,
                             CellsOf(st1.host, HstPtrBegin, MapSize),
                             MapSize, o)}})
      \* OMP_TGT_MAPTYPE_FROM
      From(st0, TgtPtrBegin) ==
        IF ~Has(al[k].type, "FROM") THEN st0
        ELSE Once({IF r1.rc # OFFLOAD_SUCCESS THEN r1
                   ELSE UpdateRestoreHost(r1,
                          ShadowUpperBound(r1.shadow, ub, 1), lb) :
                   r1 \in {data_retrieve(st0, HstPtrBegin, TgtPtrBegin,
                                         MapSize, o)}})
      Found(st0, TgtPtrBegin) ==
        Once({To(st1, TgtPtrBegin) : st1 \in {From(st0, TgtPtrBegin)}})
  IN Once({Once({IF NotFound(g.rc) THEN st0
                 ELSE Found(st0, g.rc) :
                 st0 \in {[st EXCEPT
                             !.map = g.map,
                             !.drv = Append(@, [call |-> "getTgtPtrBegin",
                                       hst |-> HstPtrBegin, size |-> MapSize,
                                       rc |-> g.rc, IsLast |-> FALSE,
                                       from |-> FALSE, del |-> FALSE])]}}) :
           g \in {UpdateLookup(st.map, HstPtrBegin, MapSize)}})

RECURSIVE UpdateLoop(_, _, _, _)
UpdateLoop(st, al, k, o) ==
  IF k > Len(al) THEN [st EXCEPT !.rc = OFFLOAD_SUCCESS]
  ELSE IF Skipped(al[k].type) THEN UpdateLoop(st, al, k + 1, o)
  ELSE Once({IF s1.rc # OFFLOAD_SUCCESS THEN s1
              ELSE UpdateLoop(s1, al, k + 1, o) :
              s1 \in {UpdateArg(st, al, k, o)}})

target_data_update(st, al, o) == UpdateLoop(st, al, 1, o)

(* ------------------------------ state --------------------------------- *)
VARIABLES
  HostDataToTargetMap,  \* DeviceTy::HostDataToTargetMap
  ShadowPtrMap,         \* DeviceTy::ShadowPtrMap
  hostMem,              \* host memory, one value per cell
  devMem,               \* device memory, one value per cell
  IsBulkEnabled,        \* DeviceTy::IsBulkEnabled
  IsNoBulkEnabled,      \* DeviceTy::IsNoBulkEnabled
  IsATEnabled,          \* DeviceTy::IsATEnabled
  ATMode,               \* DeviceTy::ATMode, the set of its mode bits
  UpdatePtrList,        \* DeviceTy::UpdatePtrList
  SegmentList,          \* DeviceTy::SegmentList
  TgtList,              \* DeviceTy::SegmentList.TgtList
  HostPtrToTableMap,    \* the host pointers with an entry in the table cache
  Registered,           \* libraries in HostEntriesBeginToTransTable
  TargetsTable,         \* TransTable->TargetsTable[device_id] != 0
  TargetsImages,        \* TransTable->TargetsImages[device_id] != 0
  PendingCtors,         \* PendingCtorsDtors[lib].PendingCtors non-empty
  HasPendingGlobals,    \* DeviceTy::HasPendingGlobals
  calls,                \* the number of region calls made so far
  last,                 \* the last call: its operation and its outcome
  pc,                   \* where each host thread is in the call it makes
  loc,                  \* the local variables of each host thread
  mtx,                  \* the owner of each mutex, 0 when it is free
  hist                  \* what the driver was asked so far, counted

mapVars == <<HostDataToTargetMap>>
memVars == <<ShadowPtrMap, hostMem, devMem, UpdatePtrList, SegmentList,
             TgtList, calls>>
cfgVars == <<IsBulkEnabled, IsNoBulkEnabled, IsATEnabled, ATMode>>
libVars == <<Registered, TargetsTable, TargetsImages, PendingCtors,
             HasPendingGlobals>>
thrVars == <<pc, loc, mtx, hist>>
vars == <<HostDataToTargetMap, ShadowPtrMap, hostMem, devMem, IsBulkEnabled,
          IsNoBulkEnabled, IsATEnabled, ATMode, UpdatePtrList, SegmentList,
          TgtList, HostPtrToTableMap, Registered, TargetsTable,
          TargetsImages, PendingCtors, HasPendingGlobals, calls, last,
          pc, loc, mtx, hist>>

\* The host threads and the mutexes: PendingGlobalsMtx, DataMapMtx and
\* ShadowMtx of the device, TrlTblMtx and TblMapMtx of the library.
Threads == 1..MaxThreads
Mutexes == {"PendingGlobalsMtx", "TrlTblMtx", "TblMapMtx", "DataMapMtx",
            "ShadowMtx"}
\* The constructors a library registers, by their entries.
Ctors(l) == <<CtorA, CtorB>>
\* A thread that makes no call, and a driver that was asked nothing.
NoLocals ==
  [op |-> "none", arg |-> NULL, host_ptr |-> NULL, hpg |-> FALSE, l |-> 1,
   i |-> 1, TM |-> {}, scanned |-> FALSE, seen |-> <<>>,
   rc |-> OFFLOAD_SUCCESS, flag |-> FALSE, ptr |-> NULL, ret |-> "done"]
NoHist ==
  [loads |-> [l \in Libs |-> 0],
   runs |-> [l \in Libs |-> [i \in 1..Len(Ctors(l)) |-> 0]],
   allocs |-> 0, found |-> 0, ref0 |-> 0]
InitIdle ==
  /\ pc = [t \in Threads |-> "idle"]
  /\ loc = [t \in Threads |-> NoLocals]
  /\ mtx = [m \in Mutexes |-> 0]
  /\ hist = NoHist

\* Reference counts stay within MaxRef of 0 or of the infinite sentinel.
RefsBounded(S) ==
  \A i \in 1..Len(S) :
    \/ S[i].RefCount \in 0..MaxRef
    \/ S[i].RefCount \in (INF_REF_CNT - MaxRef)..(INF_REF_CNT + MaxRef)

\* The host data of the regions: a struct S of two pointer fields, q
\* pointing to the array X and r pointing to the array Y.
StructS == 4 * alignment
FieldQ == StructS
FieldR == StructS + SizeofPtr
ArrayX == StructS + 2 * SizeofPtr
ArrayY == ArrayX + alignment
MemEnd == ArrayY + alignment
MemAddrs == {a \in StructS..(MemEnd - 1) : a % Cell = 0}
InitHostMem ==
  [a \in MemAddrs |-> IF a = FieldQ THEN ArrayX
                      ELSE IF a = FieldR THEN ArrayY
                      ELSE IF a >= ArrayX THEN 1 ELSE 0]
DevCells == {TgtDelta + a : a \in MemAddrs}

InitMemory ==
  /\ ShadowPtrMap = <<>>
  /\ hostMem = InitHostMem
  /\ devMem = [t \in DevCells |-> 0]
  /\ UpdatePtrList = <<>>
  /\ SegmentList = {}
  /\ TgtList = <<>>
  /\ HostPtrToTableMap = {}
  /\ InitIdle
  /\ calls = 0
  /\ last = [op |-> "none", cause |-> "none", note |-> {}]

\* The device before any library is registered, in its default mode.
Init ==
  /\ InitMemory
  /\ HostDataToTargetMap = <<>>
  /\ Registered = [l \in Libs |-> FALSE]
  /\ TargetsTable = [l \in Libs |-> FALSE]
  /\ TargetsImages = [l \in Libs |-> FALSE]
  /\ PendingCtors = [l \in Libs |-> FALSE]
  /\ HasPendingGlobals = FALSE
  /\ IsBulkEnabled = FALSE
  /\ IsNoBulkEnabled = FALSE
  /\ IsATEnabled = FALSE
  /\ ATMode = {}

\* The device as the region calls find it, in any of its modes: the entry
\* points run CheckDeviceAndCtors first, so the libraries are loaded and
\* their globals are mapped.
\* The device after the libraries are registered and their globals mapped.
InitDevice ==
  /\ InitMemory
  /\ HostDataToTargetMap =
       InitLibrary([map |-> <<>>, reg |-> [l \in Libs |-> TRUE],
                    table |-> [l \in Libs |-> FALSE],
                    image |-> [l \in Libs |-> TRUE],
                    ctors |-> [l \in Libs |-> FALSE], pending |-> TRUE,
                    rc |-> OFFLOAD_SUCCESS],
                   [load |-> [l \in Libs |-> "ok"],
                    ctor |-> [l \in Libs |-> TRUE]]).map
  /\ Registered = [l \in Libs |-> TRUE]
  /\ TargetsTable = [l \in Libs |-> TRUE]
  /\ TargetsImages = [l \in Libs |-> TRUE]
  /\ PendingCtors = [l \in Libs |-> FALSE]
  /\ HasPendingGlobals = FALSE

InitRegion ==
  /\ InitDevice
  /\ IsBulkEnabled \in BOOLEAN
  /\ IsNoBulkEnabled = FALSE
  /\ IsATEnabled \in BOOLEAN
  /\ ATMode = {}

Oracles == [alloc : BOOLEAN, junk : BOOLEAN]

(* ------------------- the lifecycle operations, called ----------------- *)
GetOrAllocTgtPtr(hb, size, implicit, update, o) ==
  /\ hb + size <= HostHi
  /\ \E r \in {getOrAllocTgtPtr(HostDataToTargetMap, hb, hb, size, implicit,
                               update, o)} :
       /\ RefsBounded(r.map)
       /\ o.junk => r.rc = NULL
       /\ ~o.alloc => r.cause = "allocfail"
       /\ HostDataToTargetMap' = r.map
       /\ last' = [op |-> "getOrAllocTgtPtr", cause |-> r.cause, note |-> {}]
  /\ UNCHANGED <<memVars, cfgVars, libVars, HostPtrToTableMap, thrVars>>

GetTgtPtrBegin(hb, size, update) ==
  /\ hb + size <= HostHi
  /\ \E r \in {getTgtPtrBeginRef(HostDataToTargetMap, hb, size, update)} :
       /\ RefsBounded(r.map)
       /\ HostDataToTargetMap' = r.map
       /\ last' = [op |-> "getTgtPtrBegin", cause |-> r.cause, note |-> {}]
  /\ UNCHANGED <<memVars, cfgVars, libVars, HostPtrToTableMap, thrVars>>

DeallocTgtPtr(hb, size, force) ==
  /\ hb + size <= HostHi
  /\ \E r \in {deallocTgtPtr(HostDataToTargetMap, hb, size, force)} :
       /\ HostDataToTargetMap' = r.map
       /\ last' = [op |-> "deallocTgtPtr", cause |-> r.cause, note |-> {}]
  /\ UNCHANGED <<memVars, cfgVars, libVars, HostPtrToTableMap, thrVars>>

(* ----------------------- library registration ------------------------- *)
\* RegisterLib: a new translation table, pending constructors, and
\* HasPendingGlobals set on the device.
RegisterLib(l, hasCtors) ==
  /\ ~Registered[l]
  /\ Registered' = [Registered EXCEPT ![l] = TRUE]
  /\ TargetsImages' = [TargetsImages EXCEPT ![l] = TRUE]
  /\ PendingCtors' = [PendingCtors EXCEPT ![l] = hasCtors]
  /\ HasPendingGlobals' = TRUE
  /\ last' = [op |-> "RegisterLib", cause |-> "registered", note |-> {}]
  /\ UNCHANGED <<mapVars, memVars, cfgVars, TargetsTable, HostPtrToTableMap,
               thrVars>>

LibOracles == [load : [Libs -> {"ok", "fail", "mismatch"}], ctor : [Libs -> BOOLEAN]]

\* CheckDeviceAndCtors: InitLibrary runs when the device has pending globals.
CheckDeviceAndCtors(o) ==
  /\ HasPendingGlobals
  /\ \E r \in {InitLibrary([map |-> HostDataToTargetMap, reg |-> Registered,
                              table |-> TargetsTable, image |-> TargetsImages,
                              ctors |-> PendingCtors,
                              pending |-> HasPendingGlobals,
                              rc |-> OFFLOAD_SUCCESS], o)} :
     /\ HostDataToTargetMap' = r.map
     /\ TargetsTable' = r.table
     /\ TargetsImages' = r.image
     /\ PendingCtors' = r.ctors
     /\ HasPendingGlobals' = r.pending
     /\ last' = [op |-> "InitLibrary", cause |-> r.rc, note |-> {}]
  /\ UNCHANGED <<memVars, cfgVars, Registered, HostPtrToTableMap, thrVars>>

Next ==
  \/ \E hb \in HostAddrs, size \in Sizes, implicit \in BOOLEAN,
        update \in BOOLEAN, o \in Oracles :
       GetOrAllocTgtPtr(hb, size, implicit, update, o)
  \/ \E hb \in HostAddrs, size \in Sizes, update \in BOOLEAN :
       GetTgtPtrBegin(hb, size, update)
  \/ \E hb \in HostAddrs, size \in Sizes, force \in BOOLEAN :
       DeallocTgtPtr(hb, size, force)
  \/ \E l \in Libs, hasCtors \in BOOLEAN : RegisterLib(l, hasCtors)
  \/ \E o \in LibOracles : CheckDeviceAndCtors(o)

Spec == Init /\ [][Next]_vars

(* -------------------- properties of the interval map ------------------ *)
Ranges == {q \in HostAddrs \X Sizes : q[1] + q[2] <= HostHi}
Overlap(a, b) == a.HstPtrBegin < b.HstPtrEnd /\ b.HstPtrBegin < a.HstPtrEnd
Disjoint(S) == \A i, j \in 1..Len(S) : i # j => ~Overlap(S[i], S[j])
Descending(S) ==
  \A i \in 1..(Len(S) - 1) : S[i].HstPtrBegin > S[i + 1].HstPtrBegin

\* C1: after any sequence of getOrAllocTgtPtr, getTgtPtrBegin, deallocTgtPtr
\* calls and InitLibrary runs, no two entries of HostDataToTargetMap overlap
\* and the entries are in strictly descending order of HstPtrBegin.
C1_Disjointness ==
  Disjoint(HostDataToTargetMap) /\ Descending(HostDataToTargetMap)

\* InitLibrary has added a global below or above a mapping of a region.
C1_Witness ==
  /\ last.op = "InitLibrary"
  /\ last.cause = OFFLOAD_SUCCESS
  /\ \E i, j \in 1..Len(HostDataToTargetMap) :
       /\ HostDataToTargetMap[i].RefCount = INF_REF_CNT
       /\ HostDataToTargetMap[j].RefCount = 1

\* n getOrAllocTgtPtr calls for one range, the plugin allocating or not.
RECURSIVE Begins(_, _, _, _, _, _)
Begins(S, hb, size, implicit, alloc, n) ==
  IF n = 0 THEN S
  ELSE Begins(getOrAllocTgtPtr(S, hb, hb, size, implicit, TRUE,
                               [alloc |-> alloc, junk |-> FALSE]).map,
              hb, size, implicit, alloc, n - 1)
\* The IsLast flags of n getTgtPtrBegin calls that decrement.
RECURSIVE Ends(_, _, _, _)
Ends(S, hb, size, n) ==
  IF n = 0 THEN <<>>
  ELSE LET r == getTgtPtrBeginRef(S, hb, size, TRUE) IN
       <<r.flag>> \o Ends(r.map, hb, size, n - 1)
LastOnlyAtEnd(flags) == \A i \in 1..Len(flags) : flags[i] <=> (i = Len(flags))
RoundTrip(S, hb, size, implicit, alloc, n) ==
  LastOnlyAtEnd(Ends(Begins(S, hb, size, implicit, alloc, n), hb, size, n))

\* C2, as stated: for every N >= 1, N getOrAllocTgtPtr calls for one range
\* followed by N decrementing getTgtPtrBegin calls give IsLast exactly on
\* the Nth, whatever the range, the map and the plugin's answer.
C2_RoundTripAlways ==
  \A q \in Ranges, implicit \in BOOLEAN, alloc \in BOOLEAN, n \in 1..MaxRef :
    RoundTrip(HostDataToTargetMap, q[1], q[2], implicit, alloc, n)

\* C2, amended: the round trip holds for a non-empty range that touches no
\* live entry, when the plugin allocates and the mapping is not the
\* implicit one of a persistent global.
C2_RoundTrip ==
  \A q \in Ranges, implicit \in BOOLEAN, n \in 1..MaxRef :
    (/\ q[2] # 0
     /\ ~AnyFlag(lookupMapping(HostDataToTargetMap, q[1], q[2]))
     /\ ~(implicit /\ IsPersistentGlobal(q[1], q[2])))
    => RoundTrip(HostDataToTargetMap, q[1], q[2], implicit, TRUE, n)

\* The last of the end calls has just brought an entry's count to zero.
C2_Witness ==
  /\ last.op = "getTgtPtrBegin"
  /\ last.cause = "hit"
  /\ \E i \in 1..Len(HostDataToTargetMap) : HostDataToTargetMap[i].RefCount = 0

Allocs(drv, Size) ==
  {i \in 1..Len(drv) : drv[i].call = "data_alloc" /\ drv[i].size = Size}
\* The call created the entry [hb, hb+size) with reference count rf: IsNew
\* is set, the plugin was asked once for size bytes, and the map is the old
\* one with that entry added at its place.
CreatedEntry(S, r, hb, size, rf) ==
  /\ r.flag
  /\ r.rc # NULL
  /\ Cardinality(Allocs(r.drv, size)) = 1 /\ Len(r.drv) = 1
  /\ Len(r.map) = Len(S) + 1
  /\ \E i \in 1..Len(r.map) :
       /\ r.map[i] = [HstPtrBase |-> hb, HstPtrBegin |-> hb,
                      HstPtrEnd |-> hb + size, TgtPtrBegin |-> r.rc,
                      RefCount |-> rf]
       /\ SetErase(r.map, i) = S
\* The call found the covering entry e: its device address for hb is
\* returned, IsNew is cleared, the plugin is not asked, and only the
\* reference count of e may change, by one when UpdateRefCount is set.
FoundEntry(S, r, e, hb, update) ==
  /\ ~r.flag
  /\ r.rc = S[e].TgtPtrBegin + (hb - S[e].HstPtrBegin)
  /\ r.drv = <<>>
  /\ r.map = [S EXCEPT ![e].RefCount = IF update THEN @ + 1 ELSE @]
Covers(HT, hb, size) ==
  HT.HstPtrBegin <= hb /\ hb < HT.HstPtrEnd /\ hb + size <= HT.HstPtrEnd

\* C3, as stated: getOrAllocTgtPtr creates an entry with reference count 1
\* if and only if no live entry covers the range, and otherwise returns the
\* covering entry's device pointer without allocating.
C3_NewIffNotCovered ==
  \A q \in Ranges, implicit \in BOOLEAN, update \in BOOLEAN, o \in Oracles :
    LET S == HostDataToTargetMap
        r == getOrAllocTgtPtr(S, q[1], q[1], q[2], implicit, update, o)
        covered == \E e \in 1..Len(S) : Covers(S[e], q[1], q[2])
    IN /\ CreatedEntry(S, r, q[1], q[2], 1) <=> ~covered
       /\ \A e \in 1..Len(S) :
            Covers(S[e], q[1], q[2]) => FoundEntry(S, r, e, q[1], update)

\* C3, amended: getOrAllocTgtPtr creates an entry if and only if the range
\* is non-empty, touches no live entry and the plugin allocates; the new
\* entry's reference count is 1, or the infinite sentinel for the implicit
\* mapping of a persistent global.  When an entry covers the range, the
\* entry's device address for the range's begin is returned with IsNew
\* cleared, without allocation, the count one higher only when
\* UpdateRefCount is set.
C3_GetOrAlloc ==
  \A q \in Ranges, implicit \in BOOLEAN, update \in BOOLEAN, o \in Oracles :
    LET S == HostDataToTargetMap
        r == getOrAllocTgtPtr(S, q[1], q[1], q[2], implicit, update, o)
        touched == \E e \in 1..Len(S) : AnyFlag(EntryFlags(S[e], q[1], q[2]))
        rf == IF implicit /\ IsPersistentGlobal(q[1], q[2])
              THEN INF_REF_CNT ELSE 1
    IN /\ CreatedEntry(S, r, q[1], q[2], rf)
            <=> (q[2] # 0 /\ ~touched /\ o.alloc)
       /\ \A e \in 1..Len(S) :
            Covers(S[e], q[1], q[2]) => FoundEntry(S, r, e, q[1], update)

\* A second getOrAllocTgtPtr for a mapped range has raised its count to 2.
C3_Witness ==
  /\ last.op = "getOrAllocTgtPtr"
  /\ last.cause = "hit"
  /\ \E i \in 1..Len(HostDataToTargetMap) :
       HostDataToTargetMap[i].RefCount = 1 + 1

\* The query touches the entry: it lies inside it or overlaps it.
Touches(HT, hp, Size) ==
  \/ Covers(HT, hp, Size)
  \/ hp < HT.HstPtrEnd /\ hp + Size > HT.HstPtrBegin

\* C4: lookupMapping sets IsContained exactly when the query lies inside
\* some entry, sets no flag exactly when the query touches no entry, and
\* when a flag is set Entry is an entry the query touches, ExtendsBefore /
\* ExtendsAfter telling that the query overlaps it and starts before its
\* begin / ends after its end.
C4_Lookup ==
  \A q \in Ranges :
    LET S == HostDataToTargetMap
        lr == lookupMapping(S, q[1], q[2])
    IN /\ lr.IsContained <=> \E e \in 1..Len(S) : Covers(S[e], q[1], q[2])
       /\ ~AnyFlag(lr) <=> \A e \in 1..Len(S) : ~Touches(S[e], q[1], q[2])
       /\ AnyFlag(lr) =>
            /\ lr.Entry \in 1..Len(S)
            /\ Touches(S[lr.Entry], q[1], q[2])
            /\ lr.ExtendsBefore <=>
                 (/\ q[1] < S[lr.Entry].HstPtrBegin
                  /\ q[1] + q[2] > S[lr.Entry].HstPtrBegin)
            /\ lr.ExtendsAfter <=>
                 (/\ q[1] < S[lr.Entry].HstPtrEnd
                  /\ q[1] + q[2] > S[lr.Entry].HstPtrEnd)
       /\ ~AnyFlag(lr) => lr.Entry = 0

\* The map holds two entries, and queries exist that lie inside one, that
\* straddle one's begin, that straddle one's end and that touch none.
C4_Witness ==
  /\ Len(HostDataToTargetMap) >= 2
  /\ last.op = "getOrAllocTgtPtr"
  /\ \E q \in Ranges : lookupMapping(HostDataToTargetMap, q[1], q[2]).IsContained
  /\ \E q \in Ranges : lookupMapping(HostDataToTargetMap, q[1], q[2]).ExtendsBefore
  /\ \E q \in Ranges : lookupMapping(HostDataToTargetMap, q[1], q[2]).ExtendsAfter
  /\ \E q \in Ranges : ~AnyFlag(lookupMapping(HostDataToTargetMap, q[1], q[2]))

\* The entry of S is in S2, at the same device address, its count still
\* among those CONSIDERED_INF accepts.
KeptInfinite(HT, S2) ==
  \E j \in 1..Len(S2) :
    /\ S2[j].HstPtrBegin = HT.HstPtrBegin /\ S2[j].HstPtrEnd = HT.HstPtrEnd
    /\ S2[j].TgtPtrBegin = HT.TgtPtrBegin
    /\ CONSIDERED_INF(S2[j].RefCount)
Frees(drv, tp) ==
  \E i \in 1..Len(drv) : drv[i].call = "data_delete" /\ drv[i].tgt = tp

\* C5: an entry whose count is the infinite sentinel survives every
\* getOrAllocTgtPtr, decrementing getTgtPtrBegin and deallocTgtPtr call,
\* those with ForceDelete included: it stays in the map, its device memory
\* is not freed and its count stays among those CONSIDERED_INF accepts.
C5_InfiniteNeverRemoved ==
  \A i \in 1..Len(HostDataToTargetMap) :
    LET S == HostDataToTargetMap
        HT == S[i]
    IN HT.RefCount = INF_REF_CNT =>
         \A q \in Ranges :
           /\ \A implicit \in BOOLEAN, update \in BOOLEAN, o \in Oracles :
                KeptInfinite(HT, getOrAllocTgtPtr(S, q[1], q[1], q[2],
                                                  implicit, update, o).map)
           /\ \A update \in BOOLEAN :
                KeptInfinite(HT, getTgtPtrBeginRef(S, q[1], q[2], update).map)
           /\ \A force \in BOOLEAN :
                LET d == deallocTgtPtr(S, q[1], q[2], force) IN
                KeptInfinite(HT, d.map) /\ ~Frees(d.drv, HT.TgtPtrBegin)

\* What the caller of getOrAllocTgtPtr sees: the pointer and IsNew.
Seen(r) == <<r.rc, r.flag>>
Extends(S, q) ==
  LET lr == lookupMapping(S, q[1], q[2]) IN
  ~lr.IsContained /\ (lr.ExtendsBefore \/ lr.ExtendsAfter)
Untouched(S, q) == q[2] # 0 /\ ~AnyFlag(lookupMapping(S, q[1], q[2]))

C8_Dealloc ==
  \A q \in Ranges, force \in BOOLEAN :
    LET S == HostDataToTargetMap
        lr == lookupMapping(S, q[1], q[2])
        d == deallocTgtPtr(S, q[1], q[2], force)
    IN /\ (d.map # S \/ d.drv # <<>>) =>
            /\ AnyFlag(lr)
            /\ force \/ S[lr.Entry].RefCount <= 0
            /\ d.map = SetErase(S, lr.Entry)
            /\ Frees(d.drv, S[lr.Entry].TgtPtrBegin) /\ Len(d.drv) = 1
       /\ (AnyFlag(lr) /\ ~force /\ S[lr.Entry].RefCount > 0) =>
            d.map = S /\ d.drv = <<>>

\* deallocTgtPtr has just left an entry with a positive count in place.
C8_Witness ==
  /\ last.op = "deallocTgtPtr"
  /\ last.cause = "kept"
  /\ \E i \in 1..Len(HostDataToTargetMap) :
       HostDataToTargetMap[i].RefCount \in 1..MaxRef

(* ----------------------------- region calls --------------------------- *)
TF == {"TO", "FROM"}
GlobalVar == HostLo + Cell
\* The argument lists the regions pass: a struct with its two pointer
\* members, an array, a literal followed by an array, and a range that
\* straddles two arrays.
StructArgs ==
  <<Arg(StructS, StructS, 2 * SizeofPtr, TF, 0),
    Arg(FieldQ, ArrayX, alignment, TF \cup {"PTR_AND_OBJ"}, 1),
    Arg(FieldR, ArrayY, alignment, TF \cup {"PTR_AND_OBJ"}, 1)>>
\* The struct with its field r named as a plain member.
MemberArgs ==
  <<Arg(StructS, StructS, 2 * SizeofPtr, TF, 0),
    Arg(StructS, FieldR, SizeofPtr, {"FROM", "DELETE"}, 1),
    Arg(FieldQ, ArrayX, alignment, TF \cup {"PTR_AND_OBJ"}, 1)>>
BeginLists ==
  { StructArgs,
    <<Arg(ArrayX, ArrayX, alignment, {"FROM"}, 0)>>,
    <<Arg(NULL, NULL, 0, {"LITERAL"}, 0),
      Arg(ArrayY, ArrayY, alignment, {"TO", "ALWAYS"}, 0)>>,
    <<Arg(ArrayX + Cell, ArrayX + Cell, alignment, TF, 0)>> }
\* The lists that end a region also name single fields of the struct, the
\* struct with the delete flag, and a global of a library.
EndLists ==
  { StructArgs, MemberArgs,
    <<Arg(ArrayX, ArrayX, alignment, {"FROM"}, 0)>>,
    <<Arg(FieldQ, FieldQ, SizeofPtr, {"FROM", "ALWAYS"}, 0)>>,
    <<Arg(FieldR, FieldR, SizeofPtr, {"FROM", "ALWAYS"}, 0)>>,
    <<Arg(StructS, StructS, 2 * SizeofPtr, {"FROM", "DELETE"}, 0)>>,
    <<Arg(GlobalVar, GlobalVar, 2 * Cell, {"DELETE"}, 0)>> }
UpdateLists ==
  { <<Arg(ArrayX, ArrayX, alignment, {"FROM"}, 0),
      Arg(ArrayY, ArrayY, alignment, {"TO"}, 0)>>,
    <<Arg(FieldQ, FieldQ, SizeofPtr, TF, 0)>>,
    <<Arg(ArrayX, ArrayX, alignment, TF \cup {"LITERAL"}, 0),
      Arg(ArrayY, ArrayY, alignment, TF \cup {"PRIVATE"}, 0),
      Arg(FieldR, FieldR, SizeofPtr, TF, 0)>> }

RegionOracles == [failAlloc : 0..MaxFail, failXfer : 0..MaxFail, junk : BOOLEAN]

\* The record a region call starts from.
St ==
  [map |-> HostDataToTargetMap, shadow |-> ShadowPtrMap, host |-> hostMem,
   dev |-> devMem, upd |-> UpdatePtrList, seg |-> SegmentList,
   bulk |-> IsBulkEnabled, nobulk |-> IsNoBulkEnabled, at |-> IsATEnabled,
   atmode |-> ATMode, TgtList |-> TgtList, table |-> <<>>, phase |-> <<>>,
   contexts |-> {},
   nalloc |-> 0, nxfer |-> 0, nfree |-> 0, fpArrays |-> <<>>,
   TgtMemPtr |-> NULL, deleted |-> {}, tgt_args |-> <<>>,
   tgt_offsets |-> <<>>, tgtArgsPositions |-> <<>>,
   rc |-> OFFLOAD_SUCCESS,
   drv |-> <<>>]

Lookups(drv) == {i \in 1..Len(drv) : drv[i].call = "getTgtPtrBegin"}
\* The lookups of target_data_end that found a mapping.
EndLookups(drv) ==
  {i \in Lookups(drv) : "force" \in DOMAIN drv[i] /\ drv[i].rc # NULL}

\* What a call's sequence of calls shows: a lookup that found nothing, an
\* allocation request for a non-empty range that returned null, a
\* transfer, a restored shadow pointer, a mapping deleted by the delete flag
\* while referenced, a struct member kept from deleting its parent.
Notes(drv) ==
  {"miss" : i \in {j \in 1..Len(drv) : drv[j].call = "getTgtPtrBegin"
                                        /\ drv[j].rc = NULL}}
  \cup {"null" : i \in {j \in 1..Len(drv) : drv[j].call = "getOrAllocTgtPtr"
                             /\ drv[j].rc = NULL /\ drv[j].size # 0}}
  \cup {"transfer" : i \in {j \in 1..Len(drv) :
                                drv[j].call \in {"data_submit", "data_retrieve"}}}
  \cup {"restored" : i \in {j \in 1..Len(drv) : drv[j].call = "shadow"
                                                  /\ drv[j].restored}}
  \cup {"forced" : i \in {j \in EndLookups(drv) :
                             drv[j].del /\ ~drv[j].IsLast}}
  \cup {"protected" : i \in {j \in EndLookups(drv) :
                                ~drv[j].del /\ (drv[j].force \/ drv[j].IsLast)}}

\* The oracle names a failure the call reaches, and the call stays within
\* the bounds.
Admissible(r, o) ==
  /\ o.failAlloc <= r.nalloc
  /\ o.failXfer <= r.nxfer
  /\ RefsBounded(r.map)
  /\ Len(r.upd) <= MaxPending

Commit(r, op) ==
  /\ calls < MaxCalls
  /\ calls' = calls + 1
  /\ HostDataToTargetMap' = r.map
  /\ ShadowPtrMap' = r.shadow
  /\ hostMem' = r.host
  /\ devMem' = r.dev
  /\ UpdatePtrList' = r.upd
  /\ SegmentList' = r.seg
  /\ last' = [op |-> op, cause |-> r.rc, note |-> Notes(r.drv)]
  /\ UNCHANGED <<cfgVars, libVars, TgtList, HostPtrToTableMap, thrVars>>

\* The call site describes the host memory: the pointer of a
\* pointer-and-object argument points to the object.
WellFormed(al) ==
  \A k \in 1..Len(al) :
    Has(al[k].type, "PTR_AND_OBJ") => ReadPtr(hostMem, al[k].base) = al[k].begin

TargetDataBegin(al, o) ==
  /\ WellFormed(al)
  /\ \E r \in {target_data_begin(St, al, o)} :
       Admissible(r, o) /\ Commit(r, "target_data_begin")

TargetDataEnd(al, o) ==
  \E r \in {target_data_end(St, al, o)} :
    Admissible(r, o) /\ Commit(r, "target_data_end")

\* target_data_update: "assert(0 && "target_data_update should not be used")"
\* on a device in bulk mode.
TargetDataUpdate(al, o) ==
  /\ ~IsBulkEnabled
  /\ \E r \in {target_data_update(St, al, o)} :
       Admissible(r, o) /\ Commit(r, "target_data_update")

NextRegion ==
  \/ \E al \in BeginLists, o \in RegionOracles : TargetDataBegin(al, o)
  \/ \E al \in EndLists, o \in RegionOracles : TargetDataEnd(al, o)
  \/ \E al \in UpdateLists, o \in RegionOracles : TargetDataUpdate(al, o)

SpecRegion == InitRegion /\ [][NextRegion]_vars

(* ---------------------- properties of the region calls ---------------- *)
NullAlloc(drv, i) ==
  drv[i].call = "getOrAllocTgtPtr" /\ drv[i].rc = NULL /\ drv[i].size # 0
ToDevice == {"data_submit", "bulk_data_submit", "suspend_update"}

\* C6: in target_data_begin, on the immediate and on the bulk path, when
\* getOrAllocTgtPtr returns null for a pointer slot or for an object of
\* non-zero size, the call returns OFFLOAD_FAIL and no copy to the device
\* and no pointer patch follows.
C6_AllocFailureFatal ==
  \A al \in BeginLists, o \in RegionOracles :
    WellFormed(al) =>
      LET r == target_data_begin(St, al, o) IN
      \A i \in 1..Len(r.drv) :
        NullAlloc(r.drv, i) =>
          /\ r.rc = OFFLOAD_FAIL
          /\ \A j \in (i + 1)..Len(r.drv) : r.drv[j].call \notin ToDevice

\* The same, of the bulk path alone.
C6_BulkOnly == IsBulkEnabled => C6_AllocFailureFatal

RegionArgs ==
  UNION {{al[k] : k \in 1..Len(al)} :
           al \in BeginLists \cup EndLists \cup UpdateLists}
Transfers(drv) ==
  {i \in 1..Len(drv) : drv[i].call \in {"data_submit", "data_retrieve"}}
Processed(al) == {k \in 1..Len(al) : ~Skipped(al[k].type)}

\* C9: getTgtPtrBegin allocates nothing and returns null when the range
\* touches no entry.  target_data_update allocates nothing and leaves the
\* map as it is; an argument without a mapping causes no transfer, the
\* arguments after it are still looked up, and the call fails only when a
\* transfer fails.
C9_UpdateMiss ==
  /\ \A a \in RegionArgs, update \in BOOLEAN :
       LET S == HostDataToTargetMap
           r == getTgtPtrBeginRef(S, a.begin, a.size, update)
       IN /\ r.drv = <<>> /\ Len(r.map) = Len(S)
          /\ (\A e \in 1..Len(S) : ~Touches(S[e], a.begin, a.size))
               => r.rc = NULL /\ r.map = S
  /\ ~IsBulkEnabled =>
       \A al \in UpdateLists, o \in RegionOracles :
         LET r == target_data_update(St, al, o) IN
         /\ r.map = HostDataToTargetMap /\ r.nalloc = 0
         /\ \A i \in Transfers(r.drv) : r.drv[i].tgt # NULL
         /\ r.rc = OFFLOAD_FAIL => o.failXfer \in 1..r.nxfer
         /\ r.rc = OFFLOAD_SUCCESS =>
              Cardinality(Lookups(r.drv)) = Cardinality(Processed(al))

\* target_data_update has found no mapping for the array Y, gone on to the
\* array X, transferred it and returned success.
C9_Witness ==
  /\ last.op = "target_data_update"
  /\ last.cause = OFFLOAD_SUCCESS
  /\ {"miss", "transfer"} \subseteq last.note
  /\ getTgtPtrBegin(HostDataToTargetMap, ArrayY, alignment) = NULL
  /\ getTgtPtrBegin(HostDataToTargetMap, ArrayX, alignment) # NULL

\* The slots the restoration loop visited, in the order of the visits.
RECURSIVE Visited(_)
Visited(drv) ==
  IF drv = <<>> THEN <<>>
  ELSE IF Head(drv).call = "shadow"
  THEN <<Head(drv).slot>> \o Visited(Tail(drv))
  ELSE Visited(Tail(drv))
\* The slots of the shadow table inside [lb, ub), highest first.
RECURSIVE SlotsWithin(_, _, _)
SlotsWithin(M, lb, ub) ==
  IF M = <<>> THEN <<>>
  ELSE IF lb <= Head(M).HstPtrAddr /\ Head(M).HstPtrAddr < ub
  THEN <<Head(M).HstPtrAddr>> \o SlotsWithin(Tail(M), lb, ub)
  ELSE SlotsWithin(Tail(M), lb, ub)
InSeq(x, sq) == \E i \in 1..Len(sq) : sq[i] = x

\* What C10 says of the argument target_data_end processes first, a
\* copy-from argument of host range [lb, ub) whose retrieval the plugin
\* carries out: the host slot of every shadow entry in the range holds the
\* recorded host value, the entries outside the range are neither visited
\* nor erased, and the visits go from the highest slot below ub down to the
\* last slot not below lb.
RangeExact(al, o) ==
  LET k == Len(al)
      lb == al[k].begin - Padding(al, k)
      ub == al[k].begin + al[k].size
      r == EndArg(St, al, k, o)
  IN (Has(al[k].type, "FROM") /\ ~Skipped(al[k].type) /\ o.failXfer = 0) =>
       /\ \A i \in 1..Len(ShadowPtrMap) :
            LET e == ShadowPtrMap[i] IN
            IF lb <= e.HstPtrAddr /\ e.HstPtrAddr < ub
            THEN ReadPtr(r.host, e.HstPtrAddr) = e.HstPtrVal
            ELSE InSeq(e, r.shadow) /\ ~InSeq(e.HstPtrAddr, Visited(r.drv))
       /\ Visited(r.drv) = SlotsWithin(ShadowPtrMap, lb, ub)

\* C10: shadow restoration in target_data_end is range-exact: every shadow
\* entry with lb <= s < ub has its host slot set to the recorded host value,
\* no entry outside the range is written or erased, and the scan goes from
\* the highest slot below ub downward and stops at the first slot below lb.
C10_RangeExact ==
  \A al \in EndLists, o \in RegionOracles : RangeExact(al, o)

\* The same, of a device that is not in address-translation mode.
C10_NoAT == ~IsATEnabled => C10_RangeExact

(* ------------------------- shadow pointers ---------------------------- *)
NoFailure == {o \in RegionOracles : o.failAlloc = 0 /\ o.failXfer = 0}
\* No live mapping touches a range the argument list names.
Unmapped(al) ==
  \A k \in 1..Len(al), e \in 1..Len(HostDataToTargetMap) :
    ~Touches(HostDataToTargetMap[e], al[k].begin, al[k].size)
\* target_data_begin followed by target_data_end on the struct S: both
\* succeed, the pointer fields of S hold on the host what they held before,
\* and the host bytes of the pointees are the device bytes at the end.
ShadowRoundTrip(o) ==
  LET b == target_data_begin(St, StructArgs, o)
      e == target_data_end(b, StructArgs, o)
      TgtX == getTgtPtrBegin(b.map, ArrayX, alignment)
      TgtY == getTgtPtrBegin(b.map, ArrayY, alignment)
  IN /\ b.rc = OFFLOAD_SUCCESS /\ e.rc = OFFLOAD_SUCCESS
     /\ ReadPtr(e.host, FieldQ) = ReadPtr(hostMem, FieldQ)
     /\ ReadPtr(e.host, FieldR) = ReadPtr(hostMem, FieldR)
     /\ CellsOf(e.host, ArrayX, alignment) = CellsOf(b.dev, TgtX, alignment)
     /\ CellsOf(e.host, ArrayY, alignment) = CellsOf(b.dev, TgtY, alignment)

\* C11: a struct with embedded pointer fields mapped as pointer-and-object
\* with copy-to and copy-from: after target_data_begin and the
\* target_data_end that releases the last reference, with no device-side
\* change, the host pointer fields hold their values from before the begin
\* and the host pointees equal the device pointees at the time of the end.
C11_ShadowRoundTrip ==
  (~IsBulkEnabled /\ WellFormed(StructArgs) /\ Unmapped(StructArgs)) =>
    \A o \in NoFailure : ShadowRoundTrip(o)

\* The same, of a device that is not in address-translation mode.
C11_NoAT == ~IsATEnabled => C11_ShadowRoundTrip

\* The slot of a shadow entry lies inside a live mapping.
Owned(e, S) ==
  \E i \in 1..Len(S) :
    S[i].HstPtrBegin <= e.HstPtrAddr /\ e.HstPtrAddr < S[i].HstPtrEnd
AllOwned(M, S) == \A i \in 1..Len(M) : Owned(M[i], S)

\* C12: after target_data_begin / target_data_end calls the shadow table
\* holds no entry whose slot address is outside every live mapping: an
\* entry is created with a pointer-and-object argument and destroyed when
\* the last reference to the mapping containing its slot is released.
C12_ShadowLifetime == AllOwned(ShadowPtrMap, HostDataToTargetMap)

(* ----------------------- the copy to the device ------------------------ *)
\* The loop body target_data_begin runs for argument k.
BeginStep(st, al, k, o) ==
  IF st.bulk THEN BulkBeginArg(st, al, k, o) ELSE BeginArg(st, al, k, o)

\* The state after the first k arguments of target_data_begin, or the state
\* of the failure that ended the call before.
RECURSIVE BeginPrefix(_, _, _, _)
BeginPrefix(st, al, k, o) ==
  IF k = 0 THEN st
  ELSE LET a == BeginPrefix(st, al, k - 1, o) IN
       IF a.rc # OFFLOAD_SUCCESS \/ Skipped(al[k].type) THEN a
       ELSE BeginStep(a, al, k, o)

\* What target_data_begin does with argument k from the current state:
\* whether the call reaches the copy decision with a mapping of the object,
\* whether that mapping is new, whether the object was sent (now, or to the
\* segment list), and the reference count of the parent at the decision.
BeginCase(al, k, o) ==
  LET a == BeginPrefix(St, al, k - 1, o)
      run == a.rc = OFFLOAD_SUCCESS /\ ~Skipped(al[k].type)
      b == IF run THEN BeginStep(a, al, k, o) ELSE a
      tr == SubSeq(b.drv, Len(a.drv) + 1, Len(b.drv))
      gets == {i \in 1..Len(tr) : tr[i].call = "getOrAllocTgtPtr"}
      want == IF Has(al[k].type, "PTR_AND_OBJ") THEN 2 ELSE 1
      j == IF gets = {} THEN 0 ELSE CHOOSE i \in gets : \A h \in gets : h <= i
      reached == run /\ Cardinality(gets) = want /\ tr[j].rc # NULL
  IN [reached |-> reached,
      IsNew |-> reached /\ tr[j].cause = "new",
      copied |-> reached /\ \E i \in j + 1..Len(tr) :
                   \/ tr[i].call = "data_submit" /\ tr[i].tgt = tr[j].rc
                   \/ tr[i].call = "bulk_data_submit"
                      /\ tr[i].hst = tr[j].hst,
      parent_rc |-> IF reached /\ IsMemberOf(al[k].type)
                    THEN ParentRefCnt(b.map, al, al[k].type) ELSE 0]

BeginCases ==
  {<<al, k, o>> \in BeginLists \X (1..MaxCells) \X RegionOracles :
     k <= Len(al) /\ WellFormed(al)}

\* C14: in target_data_begin a struct-member argument (member-of set) with
\* the copy-to flag is copied only when the reference count of its parent,
\* read with getMapEntryRefCnt at the check, equals 1.
C14_MemberCopy ==
  \A c \in BeginCases :
    LET type == c[1][c[2]].type
        b == BeginCase(c[1], c[2], c[3])
    IN (IsMemberOf(type) /\ Has(type, "TO") /\ b.copied) => b.parent_rc = 1

\* C14, amended: a struct-member argument with the copy-to flag whose
\* mapping already existed and whose always flag is clear is copied exactly
\* when the reference count of its parent equals 1 at the check; a member
\* whose mapping is new, or whose always flag is set, is copied whatever
\* the count of the parent.
C14_MemberCopyOld ==
  \A c \in BeginCases :
    LET type == c[1][c[2]].type
        b == BeginCase(c[1], c[2], c[3])
    IN (/\ IsMemberOf(type) /\ Has(type, "TO") /\ b.reached
        /\ ~b.IsNew /\ ~Has(type, "ALWAYS"))
       => (b.copied <=> b.parent_rc = 1)

\* The struct was mapped for the first time by a call that found the
\* pointee X mapped already and sent it nevertheless.
C14_Witness ==
  /\ last.op = "target_data_begin" /\ last.cause = OFFLOAD_SUCCESS
  /\ ~IsBulkEnabled
  /\ getMapEntryRefCnt(HostDataToTargetMap, StructS) = 1
  /\ getMapEntryRefCnt(HostDataToTargetMap, ArrayX) = 2
  /\ CellsOf(devMem, getTgtPtrBegin(HostDataToTargetMap, ArrayX, alignment),
             alignment) = CellsOf(hostMem, ArrayX, alignment)

\* C15: for each argument that is neither literal nor private,
\* target_data_begin issues a copy of the object to the device if and only
\* if the copy-to flag is set and the mapping is new, or the always flag is
\* set, or the argument is a struct member whose parent has reference
\* count 1; an argument without the copy-to flag is never copied.
C15_CopyRule ==
  \A c \in BeginCases :
    LET type == c[1][c[2]].type
        b == BeginCase(c[1], c[2], c[3])
    IN b.reached =>
         (b.copied <=>
            /\ Has(type, "TO")
            /\ \/ b.IsNew
               \/ Has(type, "ALWAYS")
               \/ IsMemberOf(type) /\ b.parent_rc = 1)

\* A call that mapped X without the copy-to flag left its device bytes
\* untouched, and a call with the flag has sent another object.
C15_Witness ==
  /\ last.op = "target_data_begin" /\ last.cause = OFFLOAD_SUCCESS
  /\ ~IsBulkEnabled
  /\ getMapEntryRefCnt(HostDataToTargetMap, ArrayX) = 1
  /\ getMapEntryRefCnt(HostDataToTargetMap, ArrayY) = 1
  /\ getTgtPtrBegin(HostDataToTargetMap, StructS, 2 * SizeofPtr) = NULL
  /\ CellsOf(devMem, getTgtPtrBegin(HostDataToTargetMap, ArrayX, alignment),
             alignment) # CellsOf(hostMem, ArrayX, alignment)
  /\ CellsOf(devMem, getTgtPtrBegin(HostDataToTargetMap, ArrayY, alignment),
             alignment) = CellsOf(hostMem, ArrayY, alignment)

(* ---------------------- the end of a data region ----------------------- *)
\* The state after target_data_end has processed the arguments from the
\* last down to argument k, or the state of the failure that ended the call.
RECURSIVE EndPrefix(_, _, _, _)
EndPrefix(st, al, k, o) ==
  IF k > Len(al) THEN st
  ELSE LET a == EndPrefix(st, al, k + 1, o) IN
       IF a.rc # OFFLOAD_SUCCESS \/ Skipped(al[k].type) THEN a
       ELSE EndArg(a, al, k, o)

\* What target_data_end does with argument k from the current state:
\* whether the lookup found a mapping, whether it released the last
\* reference, whether the object was copied back, whether deallocTgtPtr
\* freed the mapping, whether a shadow entry was erased, whether the copy
\* back failed,
\* and the reference count of the parent at the decision.
EndCase(al, k, o) ==
  LET a == EndPrefix(St, al, k + 1, o)
      run == a.rc = OFFLOAD_SUCCESS /\ ~Skipped(al[k].type)
      b == IF run THEN EndArg(a, al, k, o) ELSE a
      tr == SubSeq(b.drv, Len(a.drv) + 1, Len(b.drv))
      found == run /\ tr[1].rc # NULL
  IN [found |-> found,
      IsLast |-> found /\ tr[1].IsLast,
      copied |-> found /\ \E i \in 1..Len(tr) : tr[i].call = "data_retrieve",
      freed |-> found /\ \E i \in 1..Len(tr) : tr[i].call = "data_delete",
      erased |-> found /\ \E i \in 1..Len(tr) :
                   tr[i].call = "shadow" /\ tr[i].erased,
      failed |-> found /\ \E i \in 1..Len(tr) :
                   tr[i].call = "data_retrieve" /\ b.rc # OFFLOAD_SUCCESS
                   /\ i = Len(tr),
      parent_rc |-> IF found /\ IsMemberOf(al[k].type)
                    THEN ParentRefCnt(b.map, al, al[k].type) ELSE 0]

EndCases ==
  {<<al, k, o>> \in EndLists \X (1..MaxCells) \X RegionOracles : k <= Len(al)}

\* C16: for each argument that is neither literal nor private,
\* target_data_end issues a copy from the device if and only if the
\* copy-from flag is set and the call released the last reference, or the
\* always flag is set, or the argument is a struct member whose parent has
\* reference count 1; the delete flag alone, on a mapping with other
\* references, causes no copy back.
C16_CopyBack ==
  \A c \in EndCases :
    LET type == c[1][c[2]].type
        e == EndCase(c[1], c[2], c[3])
    IN e.found =>
         (e.copied <=>
            /\ Has(type, "FROM")
            /\ \/ e.IsLast
               \/ Has(type, "ALWAYS")
               \/ IsMemberOf(type) /\ e.parent_rc = 1)

\* C16, amended: the copy from the device is issued if and only if the
\* copy-from flag is set and the entry is to be deleted (the last reference
\* was released or the delete flag is set, and the argument is not a struct
\* member without pointer-and-object), or the always flag is set, or the
\* argument is a struct member without pointer-and-object whose parent has
\* reference count 1.
C16_CopyBackDel ==
  \A c \in EndCases :
    LET type == c[1][c[2]].type
        e == EndCase(c[1], c[2], c[3])
        plain == IsMemberOf(type) /\ ~Has(type, "PTR_AND_OBJ")
    IN e.found =>
         (e.copied <=>
            /\ Has(type, "FROM")
            /\ \/ (e.IsLast \/ Has(type, "DELETE")) /\ ~plain
               \/ Has(type, "ALWAYS")
               \/ plain /\ e.parent_rc = 1)

\* The struct was copied back and deleted by the delete flag while another
\* reference to it was live.
C16_Witness ==
  /\ last.op = "target_data_end" /\ last.cause = OFFLOAD_SUCCESS
  /\ {"forced", "transfer"} \subseteq last.note
  /\ getTgtPtrBegin(HostDataToTargetMap, StructS, 2 * SizeofPtr) = NULL

\* C17: target_data_end calls deallocTgtPtr for an argument exactly when the
\* call released the last reference or the delete flag is set, except that
\* an argument that is a struct member without pointer-and-object never
\* causes a deallocation or the erasure of a shadow entry.
C17_Dealloc ==
  \A c \in EndCases :
    LET type == c[1][c[2]].type
        e == EndCase(c[1], c[2], c[3])
        plain == IsMemberOf(type) /\ ~Has(type, "PTR_AND_OBJ")
    IN (e.found /\ ~e.failed) =>
         /\ e.freed <=> ((e.IsLast \/ Has(type, "DELETE")) /\ ~plain)
         /\ plain => ~e.freed /\ ~e.erased

\* A call with the delete flag on a plain member of the struct has left
\* the struct mapped, and its shadow entries in the table.
C17_Witness ==
  /\ last.op = "target_data_end" /\ "protected" \in last.note
  /\ ShadowPtrMap # <<>>
  /\ getMapEntryRefCnt(HostDataToTargetMap, StructS) > 0

\* The host addresses target_data_end looks up, in the order of the lookups.
RECURSIVE LookedUp(_)
LookedUp(drv) ==
  IF drv = <<>> THEN <<>>
  ELSE IF Head(drv).call = "getTgtPtrBegin"
  THEN <<Head(drv).hst>> \o LookedUp(Tail(drv))
  ELSE LookedUp(Tail(drv))
\* The host addresses of the arguments from argument k down to the first.
RECURSIVE LastToFirst(_, _)
LastToFirst(al, k) ==
  IF k < 1 THEN <<>>
  ELSE IF Skipped(al[k].type) THEN LastToFirst(al, k - 1)
  ELSE <<al[k].begin - Padding(al, k)>> \o LastToFirst(al, k - 1)
IsPrefix(s1, s2) == Len(s1) <= Len(s2) /\ s1 = SubSeq(s2, 1, Len(s1))

\* C18: target_data_end processes the arguments in strictly descending
\* index order: the members of a struct are ended before their parent, and
\* at the parent-refcount check of a member the mapping of the parent is
\* the one the call found.
C18_Descending ==
  \A al \in EndLists, o \in RegionOracles :
    LET r == target_data_end(St, al, o) IN
    /\ IsPrefix(LookedUp(r.drv), LastToFirst(al, Len(al)))
    /\ r.rc = OFFLOAD_SUCCESS => LookedUp(r.drv) = LastToFirst(al, Len(al))
    /\ \A k \in 1..Len(al) :
         (IsMemberOf(al[k].type) /\ EndCase(al, k, o).found) =>
           EndCase(al, k, o).parent_rc =
             ParentRefCnt(HostDataToTargetMap, al, al[k].type)

\* A call has ended a member of the struct and then the struct, whose
\* mapping the member's end had left in place.
C18_Witness ==
  /\ last.op = "target_data_end" /\ last.cause = OFFLOAD_SUCCESS
  /\ {"protected", "restored", "transfer"} \subseteq last.note
  /\ getTgtPtrBegin(HostDataToTargetMap, StructS, 2 * SizeofPtr) = NULL
  /\ ShadowPtrMap = <<>>

(* ------------------------------ target() ------------------------------- *)
\* The host addresses of two (first-)private arrays, outside the mapped
\* memory, and the entry point of the kernel.
PrivateA == MemEnd
PrivateB == MemEnd + alignment
KernelEntry == HostLo
\* What run_region / run_team_region return: success, failure, or another
\* value, which "Perf.Parallelism.add(rc)" records.
Parallelism == "Parallelism"
LaunchResults == {OFFLOAD_SUCCESS, OFFLOAD_FAIL, Parallelism}

\* "HostPtrToTableMap.find(host_ptr)", then the search of the registered
\* libraries for an entry with that address.
FindTable(host_ptr) ==
  \E l \in Libs :
    Registered[l] /\ \E i \in 1..Len(LibEntries(l)) :
                       LibEntries(l)[i].addr = host_ptr

\* The search of the registered translation tables: the first table, and
\* in it the first entry, whose address is host_ptr.
SearchTables(host_ptr) ==
  IF ~FindTable(host_ptr) THEN {}
  ELSE Once({{[host_ptr |-> host_ptr, Table |-> l,
               Index |-> (CHOOSE i \in 1..Len(LibEntries(l)) :
                            /\ LibEntries(l)[i].addr = host_ptr
                            /\ \A j \in 1..(i - 1) :
                                 LibEntries(l)[j].addr # host_ptr) - 1]} :
             l \in {CHOOSE m \in Libs :
                      /\ Registered[m]
                      /\ \E i \in 1..Len(LibEntries(m)) :
                           LibEntries(m)[i].addr = host_ptr
                      /\ \A n \in Libs :
                           (Registered[n] /\ \E i \in 1..Len(LibEntries(n)) :
                                               LibEntries(n)[i].addr = host_ptr)
                           => m <= n}})

CacheInsert_OnMiss(cache, host_ptr, found) ==
  cache \cup (IF found = {}
              THEN {[host_ptr |-> host_ptr, Table |-> NULL, Index |-> 0]}
              ELSE found)

\* "TM = &HostPtrToTableMap[host_ptr]", executed when the search has a match.
CacheInsert(cache, host_ptr, found) == cache \cup found

\* "Find the table information in the map or look it up in the translation
\* tables": the cache after the lookup, TM (empty when null) and whether
\* the translation tables were searched.
TableLookup(cache, host_ptr) ==
  Once({IF hit # {} THEN [cache |-> cache, TM |-> hit, scanned |-> FALSE]
        ELSE Once({[cache |-> CacheInsert(cache, host_ptr, found),
                    TM |-> found, scanned |-> TRUE] :
                   found \in {SearchTables(host_ptr)}}) :
        hit \in {{e \in cache : e.host_ptr = host_ptr}}})

\* target() passes from one phase of the region to the next: the phase and
\* the number of calls made before it.
Enter(st, name) ==
  IF st.phase # <<>> /\ st.phase[Len(st.phase)].name = name THEN st
  ELSE [st EXCEPT !.phase = Append(@, [name |-> name, at |-> Len(st.drv)])]

\* DeviceTy::bulk_transfer: the one aggregated submission of the ranges of
\* the segment list; target() does not read a result.
bulk_transfer(st, o) ==
  IF st.seg = {}
  THEN [st EXCEPT !.drv = Append(@, [call |-> "bulk_transfer", segs |-> {}])]
  ELSE [st EXCEPT
          !.dev = IF XferOk(st, o)
                  THEN [t \in DOMAIN @ |->
                          IF \E sg \in st.seg :
                               /\ sg.HstPtrBegin <= t - TgtDelta
                               /\ t - TgtDelta < sg.HstPtrEnd
                          THEN ReadCell(st.host, t - TgtDelta) ELSE @[t]]
                  ELSE @,
          !.nxfer = @ + 1,
          !.drv = Append(@, [call |-> "bulk_transfer", segs |-> st.seg])]

\* DeviceTy::update_suspend_list: the one pass over the queued pointer
\* patches, in the order of their insertion; each writes the device slot
\* and records the shadow entry; target() does not read a result.
RECURSIVE ApplyUpdates(_, _, _)
ApplyUpdates(st, i, o) ==
  IF i > Len(st.upd) THEN [st EXCEPT !.upd = <<>>, !.rc = OFFLOAD_SUCCESS]
  ELSE Once({Once({ApplyUpdates(
                     IF s1.rc # OFFLOAD_SUCCESS THEN s1
                     ELSE [s1 EXCEPT !.shadow =
                             ShadowAssign(@, ShadowPtrValTy(u.PtrBaseAddr,
                                               u.HstPtrBase, u.TgtPtrAddr,
                                               u.TgtPtrVal))],
                     i + 1, o) :
                   s1 \in {data_submit(st, u.TgtPtrAddr,
                                       PtrCells(u.TgtPtrVal), SizeofPtr, o)}}) :
             u \in {[PtrBaseAddr |-> st.upd[i].PtrBaseAddr,
                     HstPtrBase |-> st.upd[i].HstPtrBase,
                     TgtPtrAddr |-> bulkGetTgtPtrBegin(st,
                                      st.upd[i].PtrBaseAddr, SizeofPtr),
                     TgtPtrVal |-> bulkGetTgtPtrBegin(st, st.upd[i].PtrValue,
                                                      0)
                                   - st.upd[i].Delta]}})
update_suspend_list(st, o) ==
  ApplyUpdates([st EXCEPT !.drv = Append(@, [call |-> "update_suspend_list",
                                             n |-> Len(st.upd)])], 1, o)

\* DeviceTy::table_transfer: the segment list is sent to the device as a
\* table; target() does not read a result.
table_transfer(st, o) ==
  [st EXCEPT !.nxfer = @ + 1,
             !.drv = Append(@, [call |-> "table_transfer", segs |-> st.seg])]

\* RTL->data_alloc called by target() itself.
RTLDataAlloc(st, Size, HstPtr, o) ==
  Once({[st |-> [st EXCEPT !.nalloc = @ + 1,
                           !.drv = Append(@, [call |-> "data_alloc",
                                              size |-> Size, hst |-> HstPtr,
                                              tgt |-> tp])],
         rc |-> tp] :
        tp \in {data_alloc(Size, HstPtr, st.nalloc + 1 # o.failAlloc)}})

\* RTL->data_delete called by target() itself; the call with the ordinal
\* o.failFree is the one the plugin fails.
RTLDataDelete(st, TgtPtr, o) ==
  [st EXCEPT !.nfree = @ + 1,
             !.deleted = IF st.nfree + 1 # o.failFree
                         THEN @ \cup {TgtPtr} ELSE @,
             !.rc = IF st.nfree + 1 # o.failFree
                    THEN OFFLOAD_SUCCESS ELSE OFFLOAD_FAIL,
             !.drv = Append(@, [call |-> "data_delete", tgt |-> TgtPtr])]

\* The heaps of the allocator's contexts (mm_context_t::heap_list): host
\* memory outside the mapped data, each heap with its device counterpart.
HeapA == MemEnd + 2 * alignment
HeapB == HeapA + alignment
Heaps ==
  {[begin |-> HeapA, end |-> HeapA + alignment, tbegin |-> 2 * TgtDelta + HeapA,
    context |-> 1],
   [begin |-> HeapB, end |-> HeapB + alignment, tbegin |-> 2 * TgtDelta + HeapB,
    context |-> 1]}
\* "get_heap(HstPtrBegin, &context)": the heaps that hold the address.
get_heap(HstPtrBegin) ==
  {h \in Heaps : h.begin <= HstPtrBegin /\ HstPtrBegin < h.end}
SizeofSegmentTy == 3 * SizeofPtr

\* "static bool isLambdaMapping(int64_t Mapping)"
isLambdaMapping(type) ==
  Has(type, "PTR_AND_OBJ") /\ Has(type, "LITERAL") /\ Has(type, "IMPLICIT")

\* The value of _omp_h2dmask, and the device address _MYMALLOC_H2D and
\* get_offset give for an address of a heap of the allocator.
H2DMask == 4 * TgtDelta
MYMALLOC_H2D(HstPtrBegin) == H2DMask + HstPtrBegin
get_offset(h) == h.tbegin - h.begin

Push_ArgsOnly(st, TgtPtrBegin, TgtBaseOffset) ==
  [st EXCEPT !.tgt_args = Append(@, TgtPtrBegin), !.rc = OFFLOAD_SUCCESS]

\* "tgt_args.push_back(TgtPtrBegin); tgt_offsets.push_back(TgtBaseOffset);"
Push(st, TgtPtrBegin, TgtBaseOffset) ==
  [st EXCEPT !.tgt_args = Append(@, TgtPtrBegin),
             !.tgt_offsets = Append(@, TgtBaseOffset),
             !.rc = OFFLOAD_SUCCESS]

\* The body of the loop of target() that builds tgt_args, for argument k.
TargetArg(st, al, k, o) ==
  LET type == al[k].type
      HstPtrBegin == al[k].begin
      HstPtrBase == al[k].base
      Size == al[k].size
      \* "Update lambda reference": the slot is at the parent's argument,
      \* displaced as on the host.
      idx == member_of(type) + 1
      tgtIdx == Cardinality({j \in 1..idx : Has(al[j].type, "TARGET_PARAM")})
      tgt_offset == IF Has(al[idx].type, "LITERAL")
                       \/ Has(al[idx].type, "PTR_AND_OBJ")
                    THEN 0 ELSE al[idx].base - al[idx].begin
      Lambda ==
        Once({IF p = NULL THEN st
              ELSE data_submit(st, st.tgt_args[tgtIdx] + tgt_offset
                                     + (HstPtrBase - al[idx].begin),
                               PtrCells(p), SizeofPtr, o) :
              p \in {IF st.bulk THEN bulkGetTgtPtrBegin(st, HstPtrBegin, Size)
                     ELSE getTgtPtrBegin(st.map, HstPtrBegin, Size)}})
      \* "Allocate memory for (first-)private array"
      Private ==
        Once({IF a.rc = NULL THEN [a.st EXCEPT !.rc = OFFLOAD_FAIL]
              ELSE Once({IF ~Has(type, "TO")
                         THEN Push(s1, a.rc, HstPtrBase - HstPtrBegin)
                         ELSE Once({IF s2.rc # OFFLOAD_SUCCESS THEN s2
                                    ELSE Push(s2, a.rc,
                                              HstPtrBase - HstPtrBegin) :
                                    s2 \in {data_submit(s1, a.rc,
                                              CellsOf(s1.host, HstPtrBegin,
                                                      Size), Size, o)}}) :
                         s1 \in {[a.st EXCEPT !.fpArrays = Append(@, a.rc)]}}) :
              a \in {RTLDataAlloc(st, Size, HstPtrBegin, o)}})
      \* "if (TgtPtrBegin == NULL && (Device.ATMode & OMP_OFFMODE_AT_TABLE))":
      \* the heap of an unmapped argument, when it has a device counterpart.
      Translated(p) ==
        IF p = NULL /\ "AT_TABLE" \in st.atmode
        THEN {h \in get_heap(HstPtrBegin) : h.tbegin # NULL} ELSE {}
      \* "if (_MYMALLOC_ISMYSPACE(HstPtrBegin))": the address of a heap of
      \* the allocator is translated by the mask or by the offset.
      InHeap(p) ==
        IF get_heap(HstPtrBegin) = {} THEN p
        ELSE IF "AT_MASK" \in st.atmode THEN MYMALLOC_H2D(HstPtrBegin)
        ELSE IF "AT_OFFSET" \in st.atmode
        THEN Once({HstPtrBegin + get_offset(h) : h \in get_heap(HstPtrBegin)})
        ELSE p
      TgtBaseOffset == HstPtrBase - HstPtrBegin
      Pushed ==
        IF Has(type, "LITERAL") THEN Push(st, HstPtrBase, 0)
        ELSE IF Has(type, "PRIVATE") THEN Private
        ELSE IF Has(type, "PTR_AND_OBJ")
        THEN Push(st, IF st.bulk
                      THEN bulkGetTgtPtrBegin(st, HstPtrBegin, SizeofPtr)
                      ELSE getTgtPtrBegin(st.map, HstPtrBase, SizeofPtr), 0)
        ELSE Once({Push([st EXCEPT !.contexts =
                           @ \cup {h.context : h \in Translated(p)}],
                        IF st.bulk
                        THEN bulkGetTgtPtrBegin(st, HstPtrBegin, Size)
                        ELSE IF Translated(p) = {} THEN p
                        ELSE Once({h.tbegin - h.begin + HstPtrBegin :
                                   h \in Translated(p)}),
                        TgtBaseOffset) :
                   p \in {InHeap(getTgtPtrBegin(st.map, HstPtrBegin, Size))}})
  IN IF ~Has(type, "TARGET_PARAM")
     THEN IF isLambdaMapping(type) THEN Lambda ELSE st
     \* "tgtArgsPositions[i] = tgt_args.size();"
     ELSE IF Pushed.rc # OFFLOAD_SUCCESS THEN Pushed
     ELSE [Pushed EXCEPT !.tgtArgsPositions[k] = Len(st.tgt_args)]

RECURSIVE TargetArgs(_, _, _, _)
TargetArgs(st, al, k, o) ==
  IF k > Len(al) THEN [st EXCEPT !.rc = OFFLOAD_SUCCESS]
  ELSE Once({IF s1.rc # OFFLOAD_SUCCESS THEN s1
              ELSE TargetArgs(s1, al, k + 1, o) :
              s1 \in {TargetArg(st, al, k, o)}})

\* The segments of a segment list in the order of its iteration, a std::map
\* with std::greater: descending by HstPtrBegin.
RECURSIVE SegSeq(_)
SegSeq(S) ==
  IF S = {} THEN <<>>
  ELSE Once({<<e>> \o SegSeq(S \ {e}) :
             e \in {CHOOSE x \in S :
                      \A y \in S : y.HstPtrBegin <= x.HstPtrBegin}})

\* "SegmentList.clear()", then the heaps of the collected contexts that
\* have a device counterpart.
HeapSegments(contexts) ==
  {[HstPtrBegin |-> h.begin, HstPtrEnd |-> h.end, TgtPtrBegin |-> h.tbegin] :
   h \in {g \in Heaps : g.context \in contexts /\ g.tbegin # NULL}}

\* "SegmentList.TgtList.emplace_back(seg)" of the header, whose other two
\* words are not assigned, then "push_back(e)" of every segment; TgtList is
\* a member of the device's list and keeps what it held.
AppendTable(TgtList_, S, o) ==
  TgtList_ \o <<[HstPtrBegin |-> Cardinality(S),
                 HstPtrEnd |-> IF o.junk THEN 1 ELSE 0,
                 TgtPtrBegin |-> IF o.junk THEN 1 ELSE 0]>> \o SegSeq(S)

\* "SegmentList.size() * sizeof(SegmentTy)", the size of the allocation
\* and of the transfer.
TableBytes(S) == Cardinality(S) * SizeofSegmentTy

\* What a transfer of Bytes bytes from &TgtList[0] leaves in the buffer.
Transferred(TgtList_, Bytes) ==
  SubSeq(TgtList_, 1, Bytes \div SizeofSegmentTy)

\* "if (Device.ATMode & OMP_OFFMODE_AT_TABLE)": the segment list is rebuilt
\* from the heaps, serialised and sent as a table.
ATTable(st, o) ==
  Once({Once({Once({IF s2.rc # OFFLOAD_SUCCESS THEN s2
                    ELSE Push([s2 EXCEPT !.table =
                                 Transferred(s1.TgtList, TableBytes(s1.seg))],
                              a.rc, 0) :
                    s2 \in {data_submit([a.st EXCEPT !.TgtMemPtr = a.rc],
                                        a.rc, <<>>, 0, o)}}) :
              a \in {RTLDataAlloc(s1, TableBytes(s1.seg), NULL, o)}}) :
        s1 \in {[st EXCEPT
                   !.seg = HeapSegments(st.contexts),
                   !.TgtList = AppendTable(@, HeapSegments(st.contexts), o)]}})

\* "if (Device.ATMode & OMP_OFFMODE_AT_OFFSET)": the offset list is sent;
\* its buffer is SegmentList.TgtMemPtr.
OffsetList(st, o) ==
  Once({Once({IF s2.rc # OFFLOAD_SUCCESS THEN s2 ELSE Push(s2, a.rc, 0) :
              s2 \in {data_submit([a.st EXCEPT !.TgtMemPtr = a.rc],
                                  a.rc, <<>>, 0, o)}}) :
        a \in {RTLDataAlloc(st, 0, NULL, o)}})

\* The entries target() appends after the arguments, one "if" for each of
\* OMP_OFFMODE_AT_TABLE, OMP_OFFMODE_AT_MASK and OMP_OFFMODE_AT_OFFSET.
TargetTable(st, o) ==
  LET Table(s0) == IF "AT_TABLE" \in st.atmode
                   THEN ATTable(Enter(s0, "ATTableBuild"), o)
                   ELSE [s0 EXCEPT !.rc = OFFLOAD_SUCCESS]
      Mask(s1) == IF s1.rc # OFFLOAD_SUCCESS \/ "AT_MASK" \notin st.atmode
                  THEN s1 ELSE Push(s1, H2DMask, 0)
      Offset(s2) == IF s2.rc # OFFLOAD_SUCCESS \/ "AT_OFFSET" \notin st.atmode
                    THEN s2 ELSE OffsetList(s2, o)
  IN Once({Once({Offset(s2) : s2 \in {Mask(s1)}}) : s1 \in {Table(st)}})

\* "Deallocate (first-)private arrays"
RECURSIVE FreePrivate(_, _, _)
FreePrivate(st, i, o) ==
  IF i > Len(st.fpArrays) THEN [st EXCEPT !.rc = OFFLOAD_SUCCESS]
  ELSE Once({IF s1.rc # OFFLOAD_SUCCESS THEN s1
              ELSE FreePrivate(s1, i + 1, o) :
              s1 \in {RTLDataDelete(st, st.fpArrays[i], o)}})

\* "Deallocate table for AT"
FreeTable(st, o) ==
  IF st.atmode \cap {"AT_TABLE", "AT_OFFSET"} # {} /\ st.TgtMemPtr # NULL
  THEN Once({IF s1.rc # OFFLOAD_SUCCESS THEN s1
             ELSE [s1 EXCEPT !.TgtMemPtr = NULL] :
             s1 \in {RTLDataDelete(st, st.TgtMemPtr, o)}})
  ELSE [st EXCEPT !.rc = OFFLOAD_SUCCESS]

LaunchAborts_NonSuccess(rc) == rc # OFFLOAD_SUCCESS

\* "if (rc == OFFLOAD_FAIL) { ... return OFFLOAD_FAIL; }"
LaunchAborts(rc) == rc = OFFLOAD_FAIL

\* The launch: the plugin runs the kernel on the device memory as it is.
Launch(st, o) ==
  [Enter(st, "Launch") EXCEPT
     !.rc = IF LaunchAborts(o.launch) THEN OFFLOAD_FAIL ELSE OFFLOAD_SUCCESS,
     !.drv = Append(@, [call |-> "run_region", args |-> st.tgt_args,
                        offsets |-> st.tgt_offsets,
                        positions |-> st.tgtArgsPositions,
                        dev |-> st.dev, rc |-> o.launch, upd |-> st.upd,
                        table |-> st.table, TgtMemPtr |-> st.TgtMemPtr,
                        nfree |-> st.nfree])]

\* target() after the launch: the frees, then target_data_end.
AfterLaunch(st, al, o) ==
  Once({IF s1.rc # OFFLOAD_SUCCESS THEN s1
        ELSE Once({IF s2.rc # OFFLOAD_SUCCESS THEN s2
                   ELSE target_data_end(Enter(s2, "DataEnd"), al, o) :
                   s2 \in {FreeTable(s1, o)}}) :
        s1 \in {FreePrivate(st, 1, o)}})

\* target() from the argument loop on.
FromArgs(st, al, o) ==
  Once({IF s1.rc # OFFLOAD_SUCCESS THEN s1
        ELSE Once({IF s2.rc # OFFLOAD_SUCCESS THEN s2
                   ELSE Once({IF s3.rc # OFFLOAD_SUCCESS THEN s3
                              ELSE AfterLaunch(s3, al, o) :
                              s3 \in {Launch(s2, o)}}) :
                   s2 \in {TargetTable(s1, o)}}) :
        s1 \in {TargetArgs([st EXCEPT !.tgtArgsPositions =
                                [i \in 1..Len(al) |-> -1]], al, 1, o)}})

\* "Move data to device": after target_data_begin, the bulk transfer and the
\* pass over the queued patches on a device in bulk mode, the table on a
\* device in address-translation mode.
MoveToDevice(st, o) ==
  Once({Once({IF st.at THEN table_transfer(Enter(s2, "ATTableBuild"), o)
              ELSE s2 :
              s2 \in {IF st.bulk /\ ~st.at THEN update_suspend_list(s1, o)
                      ELSE s1}}) :
        s1 \in {IF st.bulk /\ ~st.nobulk
                THEN bulk_transfer(Enter(st, "BulkTransfer"), o)
                ELSE IF st.bulk THEN Enter(st, "BulkTransfer") ELSE st}})

NoTable_Never(TM) == FALSE

\* "No map for this host pointer found!": "if (!TM) return OFFLOAD_FAIL"
NoTable(TM) == ~TM

BeginAborts_Never(rc) == FALSE

\* "if (rc != OFFLOAD_SUCCESS) { ... abort target ... return OFFLOAD_FAIL; }"
BeginAborts(rc) == rc # OFFLOAD_SUCCESS

target(st, TM, al, o) ==
  IF NoTable(TM) THEN [st EXCEPT !.rc = OFFLOAD_FAIL]
  ELSE Once({IF BeginAborts(b.rc) THEN [b EXCEPT !.rc = OFFLOAD_FAIL]
             ELSE FromArgs(MoveToDevice(b, o), al, o) :
             b \in {target_data_begin(Enter(st, "DataBegin"), al, o)}})

\* The argument lists of the kernels: the struct S with its two pointer
\* fields; a mapped array with a first-private and a private array; a
\* literal with a mapped array.
KernelStruct ==
  <<Arg(StructS, StructS, 2 * SizeofPtr, TF \cup {"TARGET_PARAM"}, 0),
    Arg(FieldQ, ArrayX, alignment, TF \cup {"PTR_AND_OBJ"}, 1),
    Arg(FieldR, ArrayY, alignment, TF \cup {"PTR_AND_OBJ"}, 1)>>
KernelPrivate ==
  <<Arg(ArrayX, ArrayX, alignment, {"FROM", "TARGET_PARAM"}, 0),
    Arg(PrivateA, PrivateA, alignment, {"PRIVATE", "TO", "TARGET_PARAM"}, 0),
    Arg(PrivateB, PrivateB, alignment, {"PRIVATE", "TARGET_PARAM"}, 0)>>
KernelLiteral ==
  <<Arg(Cell, NULL, 0, {"LITERAL", "TARGET_PARAM"}, 0),
    Arg(ArrayY, ArrayY, alignment, TF \cup {"TARGET_PARAM"}, 0)>>
\* A pointer into a heap of the allocator, passed unmapped.
KernelHeap == <<Arg(HeapA, HeapA, 0, {"TARGET_PARAM"}, 0)>>
TargetLists == {KernelStruct, KernelPrivate, KernelLiteral, KernelHeap}
ATModes == {{}, {"AT_TABLE"}, {"AT_MASK"}, {"AT_OFFSET"}}

TargetOracles ==
  [failAlloc : 0..MaxFail, failXfer : 0..MaxFail, failFree : 0..MaxFail,
   junk : BOOLEAN, launch : LaunchResults]

\* The transient allocations of a call that were not passed to data_delete.
Leaked(r) ==
  ({r.fpArrays[i] : i \in 1..Len(r.fpArrays)} \cup ({r.TgtMemPtr} \ {NULL}))
    \ r.deleted
Launched(drv) == \E i \in 1..Len(drv) : drv[i].call = "run_region"
Ended(drv) == \E i \in Lookups(drv) : "force" \in DOMAIN drv[i]

\* The oracle names failures and a launch result the call reaches.
AdmissibleTarget(r, o) ==
  /\ Admissible(r, o)
  /\ o.failFree <= r.nfree
  /\ Launched(r.drv) \/ o.launch = OFFLOAD_SUCCESS

TargetNotes(r, o) ==
  Notes(r.drv)
  \cup {"launched" : i \in {1} \cap {IF Launched(r.drv) THEN 1 ELSE 0}}
  \cup {"ended" : i \in {1} \cap {IF Ended(r.drv) THEN 1 ELSE 0}}
  \cup {"leak" : i \in {1} \cap {IF Leaked(r) # {} THEN 1 ELSE 0}}
  \cup {o.launch : i \in {1} \cap {IF Launched(r.drv) THEN 1 ELSE 0}}
  \cup {"patched" : i \in {j \in 1..Len(r.drv) :
                              /\ r.drv[j].call = "update_suspend_list"
                              /\ r.drv[j].n > 0}}

Target(al, host_ptr, o) ==
  /\ WellFormed(al)
  /\ calls < MaxLaunches
  /\ \E tl \in {TableLookup(HostPtrToTableMap, host_ptr)} :
     \E r \in {target(St, tl.TM # {}, al, o)} :
       /\ AdmissibleTarget(r, o)
       /\ HostPtrToTableMap' = tl.cache
       /\ TgtList' = r.TgtList
       /\ calls' = calls + 1
       /\ HostDataToTargetMap' = r.map
       /\ ShadowPtrMap' = r.shadow
       /\ hostMem' = r.host
       /\ devMem' = r.dev
       /\ UpdatePtrList' = r.upd
       /\ SegmentList' = r.seg
       /\ last' = [op |-> "target", cause |-> r.rc, note |-> TargetNotes(r, o),
                   host_ptr |-> host_ptr, scanned |-> tl.scanned,
                   nargs |-> Len(r.tgt_args),
                   phase |-> [i \in 1..Len(r.phase) |-> r.phase[i].name]]
       /\ UNCHANGED <<cfgVars, libVars, thrVars>>

InitTarget ==
  /\ InitDevice
  /\ IsBulkEnabled \in BOOLEAN
  /\ IsNoBulkEnabled \in {b \in BOOLEAN : b => IsBulkEnabled}
  /\ IsATEnabled \in BOOLEAN
  /\ ATMode \in ATModes

NextTarget ==
  \E al \in TargetLists, host_ptr \in {KernelEntry, NULL}, o \in TargetOracles :
    Target(al, host_ptr, o)

SpecTarget == InitTarget /\ [][NextTarget]_vars

(* --------------------- the bulk path and the immediate ----------------- *)
\* The device memory the kernel was launched on.
DevAtLaunch(drv) ==
  {drv[i].dev : i \in {j \in 1..Len(drv) : drv[j].call = "run_region"}}
\* The oracles of a run on which the plugin carries out every request.
NoFault ==
  {o \in TargetOracles : o.failAlloc = 0 /\ o.failXfer = 0 /\ o.failFree = 0}
\* target() on the immediate path and on the bulk path, from the same
\* device: both launch the kernel on the same device memory and leave the
\* same mappings, reference counts and host pointer fields.
SamePaths(al, o) ==
  LET a == target([St EXCEPT !.bulk = FALSE], TRUE, al, o)
      b == target([St EXCEPT !.bulk = TRUE], TRUE, al, o)
  IN /\ a.rc = b.rc
     /\ DevAtLaunch(a.drv) # {}
     /\ DevAtLaunch(a.drv) = DevAtLaunch(b.drv)
     /\ a.map = b.map
     /\ ReadPtr(a.host, FieldQ) = ReadPtr(b.host, FieldQ)
     /\ ReadPtr(a.host, FieldR) = ReadPtr(b.host, FieldR)

C19_TransientFreed ==
  \A al \in TargetLists, o \in TargetOracles :
    (calls < MaxLaunches /\ WellFormed(al))
    => Leaked(target(St, TRUE, al, o)) = {}

\* The launch of a call, if the call reached it.
LaunchOf(drv) == {i \in 1..Len(drv) : drv[i].call = "run_region"}

\* C20: a launch result other than OFFLOAD_SUCCESS makes target() return
\* OFFLOAD_FAIL at once, target_data_end not being executed.
C20_LaunchAborts ==
  \A al \in TargetLists, o \in TargetOracles :
    LET r == target(St, TRUE, al, o) IN
    (/\ calls < MaxLaunches /\ WellFormed(al)
     /\ LaunchOf(r.drv) # {} /\ o.launch # OFFLOAD_SUCCESS) =>
      /\ r.rc = OFFLOAD_FAIL
      /\ ~Ended(r.drv)
      /\ \A i \in LaunchOf(r.drv) : i = Len(r.drv)

\* C20, amended: the launch result OFFLOAD_FAIL makes target() return
\* OFFLOAD_FAIL at once, target_data_end not being executed; after any
\* other result target() frees the transient allocations and executes
\* target_data_end, as after OFFLOAD_SUCCESS.
C20_LaunchFail ==
  \A al \in TargetLists, o \in TargetOracles :
    LET r == target(St, TRUE, al, o)
        ok == target(St, TRUE, al, [o EXCEPT !.launch = OFFLOAD_SUCCESS])
    IN (calls < MaxLaunches /\ WellFormed(al) /\ LaunchOf(r.drv) # {}) =>
         IF o.launch = OFFLOAD_FAIL
         THEN /\ r.rc = OFFLOAD_FAIL
              /\ ~Ended(r.drv)
              /\ \A i \in LaunchOf(r.drv) : i = Len(r.drv)
         ELSE /\ r.rc = ok.rc /\ r.map = ok.map /\ r.host = ok.host
              /\ r.deleted = ok.deleted /\ Ended(r.drv) = Ended(ok.drv)

\* A launch has failed and the call has returned without target_data_end,
\* the struct still mapped.
C20_Witness ==
  /\ last.op = "target" /\ last.cause = OFFLOAD_FAIL
  /\ {"launched", OFFLOAD_FAIL} \subseteq last.note
  /\ "ended" \notin last.note
  /\ getMapEntryRefCnt(HostDataToTargetMap, StructS) = 1

(* ------------------------ the phases of a region ----------------------- *)
PhaseOrder == <<"DataBegin", "BulkTransfer", "ATTableBuild", "Launch", "DataEnd">>
Rank(name) == CHOOSE i \in 1..Len(PhaseOrder) : PhaseOrder[i] = name
\* The calls target_data_begin and the transfers that follow it make.
BeginCalls ==
  {"getOrAllocTgtPtr", "bulk_data_submit", "suspend_update", "bulk_transfer",
   "update_suspend_list", "table_transfer"}

\* C21: within one target() call the phases occur only in the order
\* DataBegin, BulkTransfer (optional), ATTableBuild (optional), Launch,
\* DataEnd; the kernel is launched only after target_data_begin returned
\* success, every call of the begin phases precedes the launch, and every
\* lookup of target_data_end follows it.
C21_PhaseOrder ==
  \A al \in TargetLists, o \in TargetOracles :
    LET r == target(St, TRUE, al, o) IN
    (calls < MaxLaunches /\ WellFormed(al)) =>
      /\ r.phase # <<>> /\ r.phase[1].name = "DataBegin"
      /\ \A i, j \in 1..Len(r.phase) :
           i < j => Rank(r.phase[i].name) < Rank(r.phase[j].name)
      /\ Launched(r.drv) => target_data_begin(St, al, o).rc = OFFLOAD_SUCCESS
      /\ Ended(r.drv) => Launched(r.drv)
      /\ \A i \in LaunchOf(r.drv), j \in 1..Len(r.drv) :
           /\ r.drv[j].call \in BeginCalls => j < i
           /\ (r.drv[j].call = "getTgtPtrBegin" /\ "force" \in DOMAIN r.drv[j])
              => i < j

\* A call has gone through all five phases.
C21_Witness ==
  /\ last.op = "target" /\ last.cause = OFFLOAD_SUCCESS
  /\ last.phase = PhaseOrder
  /\ {"launched", "ended"} \subseteq last.note

(* ----------------------- a failure of data-begin ----------------------- *)
\* The argument at which target_data_begin fails.
FailedAt(al, o) ==
  {k \in 1..Len(al) : /\ BeginPrefix(St, al, k - 1, o).rc = OFFLOAD_SUCCESS
                      /\ BeginPrefix(St, al, k, o).rc # OFFLOAD_SUCCESS}

\* What the arguments before the failing one did is in place in r: every
\* mapping with at least its reference count, the shadow entries, the calls
\* made, and every device cell the failing argument did not itself write;
\* nothing was freed.
Kept(p, r) ==
  /\ \A i \in 1..Len(p.map) : \E j \in 1..Len(r.map) :
       /\ r.map[j].HstPtrBegin = p.map[i].HstPtrBegin
       /\ r.map[j].HstPtrEnd = p.map[i].HstPtrEnd
       /\ r.map[j].TgtPtrBegin = p.map[i].TgtPtrBegin
       /\ r.map[j].RefCount >= p.map[i].RefCount
  /\ r.shadow = p.shadow /\ r.host = p.host
  /\ r.upd = p.upd /\ p.seg \subseteq r.seg
  /\ Len(p.drv) <= Len(r.drv)
  /\ \A i \in 1..Len(p.drv) : r.drv[i] = p.drv[i]
  /\ \A i \in 1..Len(r.drv) : r.drv[i].call # "data_delete"
  /\ \A t \in DOMAIN p.dev :
       r.dev[t] # p.dev[t] =>
         \E i \in (Len(p.drv) + 1)..Len(r.drv) :
           /\ r.drv[i].call = "data_submit"
           /\ r.drv[i].tgt <= t /\ t < r.drv[i].tgt + r.drv[i].size

\* C22: when target_data_begin fails at argument k, the mappings created,
\* the reference counts incremented, the copies issued and the shadow
\* entries recorded for the arguments before k are as they were just
\* before the failure: the call returns the state the failing argument
\* left, and target() returns it unchanged with OFFLOAD_FAIL.
C22_NoRollback ==
  \A al \in BeginLists, o \in RegionOracles :
    LET r == target_data_begin(St, al, o)
        t == target(St, TRUE, al,
                    [failAlloc |-> o.failAlloc, failXfer |-> o.failXfer,
                     failFree |-> 0, junk |-> o.junk,
                     launch |-> OFFLOAD_SUCCESS])
    IN (WellFormed(al) /\ r.rc # OFFLOAD_SUCCESS) =>
         /\ Cardinality(FailedAt(al, o)) = 1
         /\ \A k \in FailedAt(al, o) :
              /\ Kept(BeginPrefix(St, al, k - 1, o), r)
              /\ r.map = BeginPrefix(St, al, k, o).map
              /\ r.dev = BeginPrefix(St, al, k, o).dev
         /\ t.rc = OFFLOAD_FAIL /\ t.map = r.map /\ t.shadow = r.shadow
         /\ t.dev = r.dev /\ t.host = r.host /\ t.drv = r.drv

\* A call has failed at the pointee of the struct's first pointer, after it
\* had added a reference to the struct: the reference is still counted.
C22_Witness ==
  /\ last.op = "target_data_begin" /\ last.cause = OFFLOAD_FAIL
  /\ getMapEntryRefCnt(HostDataToTargetMap, StructS) = 2
  /\ getTgtPtrBegin(HostDataToTargetMap, ArrayX, alignment) = NULL

(* ------------------------ the translation tables ----------------------- *)
HostPtrs == {KernelEntry, NULL}

\* C23: when no registered translation table has an entry for the host
\* function pointer, target() returns OFFLOAD_FAIL having made no call: the
\* map with its reference counts, the shadow table, the memories and the
\* cache of the translation tables are what they were.
C23_NoEntry ==
  \A host_ptr \in HostPtrs, al \in TargetLists, o \in TargetOracles :
    LET tl == TableLookup(HostPtrToTableMap, host_ptr)
        r == target(St, tl.TM # {}, al, o)
    IN ~FindTable(host_ptr) =>
         /\ r.rc = OFFLOAD_FAIL
         /\ r.drv = <<>> /\ r.phase = <<>>
         /\ r.nalloc = 0 /\ r.nxfer = 0 /\ r.nfree = 0
         /\ r.map = HostDataToTargetMap /\ r.shadow = ShadowPtrMap
         /\ r.host = hostMem /\ r.dev = devMem
         /\ r.upd = UpdatePtrList /\ r.seg = SegmentList
         /\ tl.cache = HostPtrToTableMap

\* target() has searched the tables for a pointer none of them holds and
\* has failed, after an earlier call had resolved the entry of the kernel.
C23_Witness ==
  /\ last.op = "target" /\ last.cause = OFFLOAD_FAIL
  /\ last.host_ptr = NULL /\ last.scanned /\ last.phase = <<>>
  /\ ~FindTable(NULL)
  /\ HostPtrToTableMap # {}
  /\ calls = 2

(* --------------------------- the bulk flush ---------------------------- *)
CallsOf(drv, name) == {j \in 1..Len(drv) : drv[j].call = name}
\* Every call named a precedes every call named b.
Precede(drv, a, b) ==
  \A i \in CallsOf(drv, a), j \in CallsOf(drv, b) : i < j

\* C27: on a device in bulk mode every launch is preceded by exactly one
\* bulk_transfer, issued after the data-begin, and by exactly one pass over
\* the queued pointer patches after it; the queue of patches is empty when
\* run_region is called.
C27_Flushed ==
  \A al \in TargetLists, o \in TargetOracles :
    LET r == target(St, TRUE, al, o) IN
    (/\ calls < MaxLaunches /\ IsBulkEnabled /\ WellFormed(al)
     /\ Launched(r.drv)) =>
      /\ Cardinality(CallsOf(r.drv, "bulk_transfer")) = 1
      /\ Cardinality(CallsOf(r.drv, "update_suspend_list")) = 1
      /\ Precede(r.drv, "getOrAllocTgtPtr", "bulk_transfer")
      /\ Precede(r.drv, "suspend_update", "bulk_transfer")
      /\ Precede(r.drv, "bulk_transfer", "update_suspend_list")
      /\ Precede(r.drv, "update_suspend_list", "run_region")
      /\ \A i \in LaunchOf(r.drv) : r.drv[i].upd = <<>>

\* What target() does on a device in bulk mode: a launch is preceded by
\* exactly one bulk_transfer after the data-begin unless IsNoBulkEnabled is
\* set, and then by none; on a device without address translation exactly
\* one pass over the queued patches follows, on a device with it no patch
\* is queued and no pass is made; the queue is empty when run_region is
\* called.
FlushedByMode ==
  \A al \in TargetLists, o \in TargetOracles :
    LET r == target(St, TRUE, al, o) IN
    (/\ calls < MaxLaunches /\ IsBulkEnabled /\ WellFormed(al)
     /\ Launched(r.drv)) =>
      /\ Cardinality(CallsOf(r.drv, "bulk_transfer"))
           = IF IsNoBulkEnabled THEN 0 ELSE 1
      /\ Cardinality(CallsOf(r.drv, "update_suspend_list"))
           = IF IsATEnabled THEN 0 ELSE 1
      /\ IsATEnabled => CallsOf(r.drv, "suspend_update") = {}
      /\ Precede(r.drv, "getOrAllocTgtPtr", "bulk_transfer")
      /\ Precede(r.drv, "suspend_update", "bulk_transfer")
      /\ Precede(r.drv, "suspend_update", "update_suspend_list")
      /\ Precede(r.drv, "bulk_transfer", "update_suspend_list")
      /\ Precede(r.drv, "bulk_transfer", "run_region")
      /\ Precede(r.drv, "update_suspend_list", "run_region")
      /\ \A i \in LaunchOf(r.drv) : r.drv[i].upd = <<>>

(* -------------------- the address-translation table -------------------- *)
\* C28: in AT_TABLE mode, at every launch, the buffer handed to the kernel
\* as the table holds a header whose first word is the number N of the
\* segments collected for this launch, followed by exactly those N
\* segments; the buffer is the last argument of the kernel, and a call that
\* succeeds has freed it.
C28_TableSerialized ==
  \A al \in TargetLists, o \in TargetOracles :
    LET r == target(St, TRUE, al, o) IN
    (/\ calls < MaxLaunches /\ "AT_TABLE" \in ATMode /\ WellFormed(al)
     /\ Launched(r.drv)) =>
      \A i \in LaunchOf(r.drv) :
        LET table == r.drv[i].table
            N == Cardinality(r.seg)
        IN /\ Len(table) = N + 1
           /\ table[1].HstPtrBegin = N
           /\ {table[k] : k \in 2..Len(table)} = r.seg
           /\ r.drv[i].args[Len(r.drv[i].args)] = r.drv[i].TgtMemPtr
           /\ r.rc = OFFLOAD_SUCCESS => r.drv[i].TgtMemPtr \in r.deleted

\* What target() builds: the buffer has room for N entries and receives
\* the first N entries of TgtList, which holds the tables of the earlier
\* launches followed by this launch's header and segments.
TableAsBuilt ==
  \A al \in TargetLists, o \in TargetOracles :
    LET r == target(St, TRUE, al, o) IN
    (/\ calls < MaxLaunches /\ "AT_TABLE" \in ATMode /\ WellFormed(al)
     /\ Launched(r.drv)) =>
      \A i \in LaunchOf(r.drv) :
        /\ r.TgtList = AppendTable(TgtList, r.seg, o)
        /\ r.drv[i].table = SubSeq(r.TgtList, 1, Cardinality(r.seg))

(* ------------------------ AddrTrans, on the device --------------------- *)
\* struct ATTableTy { HstPtrBegin, HstPtrEnd, TgtPtrBegin, bias }
ATTableTy(B, E, T) ==
  [HstPtrBegin |-> B, HstPtrEnd |-> E, TgtPtrBegin |-> T, bias |-> T - B]

\* The segments a table is made of, and the tables: entry 0 holds the
\* number of segments, entries 1..N hold disjoint segments in ascending
\* order of HstPtrBegin.
ATSegments ==
  {ATTableTy(alignment * k, alignment * (k + 1), TgtDelta + alignment * k) :
   k \in 1..(MaxSegs + 1)}
RECURSIVE Ascending(_)
Ascending(S) ==
  IF S = {} THEN <<>>
  ELSE Once({<<e>> \o Ascending(S \ {e}) :
             e \in {CHOOSE x \in S :
                      \A y \in S : x.HstPtrBegin <= y.HstPtrBegin}})
ATTables ==
  {[i \in 0..Cardinality(S) |->
      IF i = 0 THEN ATTableTy(Cardinality(S), 0, 0) ELSE Ascending(S)[i]] :
   S \in {T \in SUBSET ATSegments : Cardinality(T) <= MaxSegs}}
ATAddrs == {Cell * k : k \in 0..(2 * (MaxSegs + 2))}
\* What the device memory past the end of the table may hold.
Beyond == ATSegments \cup {ATTableTy(0, 0, 0), ATTableTy(0, HostHi * 8, 0)}

\* "int mid = (head + end) << 1;" (within MaxIter iterations the value stays
\* far below the largest int)
Mid(head, end) == (head + end) * 2

\* "while (head < end)": the search from [head, end); e is what a read
\* outside the table yields.  The result: the value returned, whether the
\* search read outside the table, and whether it ended within MaxIter
\* iterations.
RECURSIVE ATSearch(_, _, _, _, _, _, _)
ATSearch(addr_int, table, e, head, end, n, out) ==
  IF ~(head < end) THEN [ret |-> 0, outside |-> out, ended |-> TRUE]
  ELSE IF n = 0 THEN [ret |-> 0, outside |-> out, ended |-> FALSE]
  ELSE Once({Once({
         IF addr_int >= t.HstPtrBegin
         THEN IF addr_int < t.HstPtrEnd
              THEN [ret |-> addr_int - t.HstPtrBegin + t.TgtPtrBegin,
                    outside |-> out \/ mid \notin DOMAIN table,
                    ended |-> TRUE]
              ELSE ATSearch(addr_int, table, e, mid + 1, end, n - 1,
                            out \/ mid \notin DOMAIN table)
         ELSE ATSearch(addr_int, table, e, head, mid, n - 1,
                       out \/ mid \notin DOMAIN table) :
         t \in {IF mid \in DOMAIN table THEN table[mid] ELSE e}}) :
       mid \in {Mid(head, end)}})

\* "void *AddrTrans(void* addr, struct ATTableTy* table)"
AddrTrans(addr, table, e) ==
  ATSearch(addr, table, e, 1, table[0].HstPtrBegin + 1, MaxIter, FALSE)

\* The device with a translation table in its memory.
InitAT ==
  /\ HostDataToTargetMap = <<>>
  /\ Registered = [l \in Libs |-> TRUE]
  /\ TargetsTable = [l \in Libs |-> TRUE]
  /\ TargetsImages = [l \in Libs |-> TRUE]
  /\ PendingCtors = [l \in Libs |-> FALSE]
  /\ HasPendingGlobals = FALSE
  /\ IsBulkEnabled = FALSE /\ IsNoBulkEnabled = FALSE /\ IsATEnabled = FALSE
  /\ ATMode = {"AT_TABLE"}
  /\ ShadowPtrMap = <<>> /\ hostMem = InitHostMem
  /\ UpdatePtrList = <<>> /\ SegmentList = {} /\ TgtList = <<>>
  /\ HostPtrToTableMap = {} /\ calls = 0
  /\ last = [op |-> "none", cause |-> "none", note |-> {}]
  /\ InitIdle
  /\ devMem \in ATTables

\* The kernel translates an address.
Translate(addr, e) ==
  /\ \E r \in {AddrTrans(addr, devMem, e)} :
       last' = [op |-> "AddrTrans", cause |-> r.ended, note |-> {},
                addr |-> addr, ret |-> r.ret, outside |-> r.outside]
  /\ UNCHANGED <<mapVars, memVars, cfgVars, libVars, HostPtrToTableMap,
               thrVars>>

NextAT == \E addr \in ATAddrs, e \in Beyond : Translate(addr, e)

SpecAT == InitAT /\ [][NextAT]_vars

\* The segments of the table that hold the address.
Holding(table, addr) ==
  {i \in 1..table[0].HstPtrBegin :
     table[i].HstPtrBegin <= addr /\ addr < table[i].HstPtrEnd}

\* C29: for a table whose entry 0 holds the number N of segments and whose
\* entries 1..N are disjoint segments in ascending order, AddrTrans returns
\* addr - HstPtrBegin + TgtPtrBegin of the segment that holds addr, and 0
\* when no segment holds it, reading nothing but the table.
C29_AddrTrans ==
  \A addr \in ATAddrs, e \in Beyond :
    LET r == AddrTrans(addr, devMem, e) IN
    devMem \in ATTables =>
      /\ r.ended /\ ~r.outside
      /\ \A i \in Holding(devMem, addr) :
           r.ret = addr - devMem[i].HstPtrBegin + devMem[i].TgtPtrBegin
      /\ Holding(devMem, addr) = {} => r.ret = 0

\* What AddrTrans does: on a table without segments it returns 0; on any
\* other its first read is of entry 2 * (N + 2), outside the table.
AddrTransReads ==
  \A addr \in ATAddrs, e \in Beyond :
    LET r == AddrTrans(addr, devMem, e) IN
    devMem \in ATTables =>
      IF devMem[0].HstPtrBegin = 0
      THEN r.ret = 0 /\ r.ended /\ ~r.outside
      ELSE r.outside /\ Mid(1, devMem[0].HstPtrBegin + 1) \notin DOMAIN devMem

(* --------------------------- host threads ----------------------------- *)
\* Each thread makes one call: it checks the device (CheckDeviceAndCtors,
\* which may run InitLibrary) and then runs the operation.  A step of a
\* thread is what it does between two mutex operations.
ThreadOps == {"CheckDeviceAndCtors", "target", "target_data_begin",
              "target_data_end", "target_data_update"}
\* The host range the data operations of the threads map.
ThreadRange == [hb |-> ArrayX, size |-> alignment]

\* The mutexes a method of DeviceTy holds while it runs.  The two-argument
\* getTgtPtrBegin takes none: InitLibrary calls it with DataMapMtx held.
MethodLocks_None(method) == {}
MethodLocks_All(method) == {"DataMapMtx"}
MethodLocks(method) ==
  IF method = "getTgtPtrBegin/2" THEN {} ELSE {"DataMapMtx"}

\* The mutexes a thread is about to lock.
Wants(t) ==
  CASE pc[t] \in {"cd_lock", "il_lockP"} -> {"PendingGlobalsMtx"}
    [] pc[t] \in {"il_lockT", "tg_lockT", "tg_lockT2"} -> {"TrlTblMtx"}
    [] pc[t] = "il_lockD" -> {"DataMapMtx"}
    [] pc[t] = "il_globals" -> MethodLocks("getTgtPtrBegin/2")
    [] pc[t] = "tg_lockM" -> {"TblMapMtx"}
    [] pc[t] = "ga_lock" -> MethodLocks("getOrAllocTgtPtr")
    [] pc[t] = "gt_lock" -> MethodLocks("getTgtPtrBegin/4")
    [] pc[t] = "de_lock" -> MethodLocks("deallocTgtPtr")
    [] pc[t] = "sh_lock" -> {"ShadowMtx"}
    [] OTHER -> {}
\* std::mutex: lock() returns when no thread owns the mutex.
Free(M) == \A m \in M : mtx[m] = 0
Take(t, M) == [m \in Mutexes |-> IF m \in M THEN t ELSE mtx[m]]
Drop(t, M) == [m \in Mutexes |-> IF m \in M /\ mtx[m] = t THEN 0 ELSE mtx[m]]

\* The variables no step of a thread changes.
restVars == <<ShadowPtrMap, hostMem, devMem, UpdatePtrList, SegmentList,
              TgtList, calls, last, cfgVars, Registered>>
dataVars == <<HostDataToTargetMap, HostPtrToTableMap, TargetsTable,
              TargetsImages, PendingCtors, HasPendingGlobals>>

\* A thread goes to a label with its locals.
Goto(t, n) ==
  /\ pc' = [pc EXCEPT ![t] = n[1]]
  /\ loc' = [loc EXCEPT ![t] = n[2]]
\* A step that locks the mutexes the thread wants and changes nothing else.
LockStep(t, from, to) ==
  /\ pc[t] = from
  /\ Free(Wants(t))
  /\ mtx' = Take(t, Wants(t))
  /\ pc' = [pc EXCEPT ![t] = to]
  /\ UNCHANGED <<loc, hist, dataVars, restVars>>

\* "return rc;" from target() or from the operation: to InitLibrary when it
\* made the call for a constructor, to the caller of the library otherwise.
Return(lc, rc) ==
  IF lc.ret = "il_ctorret" THEN <<"il_ctorret", [lc EXCEPT !.rc = rc]>>
  ELSE <<"done", [lc EXCEPT !.rc = rc, !.l = 1, !.i = 1, !.seen = <<>>,
                            !.hpg = FALSE]>>
\* The operation, entered once CheckDeviceAndCtors has returned.
Body(lc, rc) ==
  IF rc # OFFLOAD_SUCCESS \/ lc.op = "CheckDeviceAndCtors"
  THEN Return([lc EXCEPT !.ret = "done"], rc)
  ELSE IF lc.op = "target"
  THEN <<"tg_lockM", [lc EXCEPT !.host_ptr = lc.arg, !.ret = "done",
                                !.l = 1, !.i = 1, !.hpg = FALSE]>>
  ELSE IF lc.op = "target_data_begin"
  THEN <<"ga_lock", [lc EXCEPT !.ret = "done", !.l = 1, !.i = 1,
                               !.hpg = FALSE]>>
  ELSE <<"gt_lock", [lc EXCEPT !.ret = "done", !.l = 1, !.i = 1,
                               !.hpg = FALSE]>>

\* A thread calls into the library.
Call(t, op, host_ptr) ==
  /\ pc[t] = "idle"
  /\ op = "target" \/ host_ptr = NULL
  /\ Goto(t, <<"cd_lock", [NoLocals EXCEPT !.op = op, !.arg = host_ptr]>>)
  /\ UNCHANGED <<mtx, hist, dataVars, restVars>>

(* CheckDeviceAndCtors *)
\* "Device.PendingGlobalsMtx.lock();"
CheckDevice_Lock(t) == LockStep(t, "cd_lock", "cd_read")
\* "bool hasPendingGlobals = Device.HasPendingGlobals; ...unlock();
\*  if (hasPendingGlobals && InitLibrary(Device) != OFFLOAD_SUCCESS)"
CheckDevice_Read(t) ==
  /\ pc[t] = "cd_read"
  /\ mtx' = Drop(t, {"PendingGlobalsMtx"})
  /\ IF HasPendingGlobals
     THEN Goto(t, <<"il_lockP", [loc[t] EXCEPT !.hpg = TRUE]>>)
     ELSE Goto(t, Body(loc[t], OFFLOAD_SUCCESS))
  /\ UNCHANGED <<hist, dataVars, restVars>>

(* InitLibrary *)
\* "Device.PendingGlobalsMtx.lock();"
InitLibrary_LockGlobals(t) == LockStep(t, "il_lockP", "il_lockT")
\* "TrlTblMtx.lock();"
InitLibrary_LockTables(t) == LockStep(t, "il_lockT", "il_tables")
\* One round of the loop over the translation tables, up to
\* "Device.DataMapMtx.lock();"; load is what load_binary yields.
InitLibrary_Table(t, load) ==
  /\ pc[t] = "il_tables"
  /\ LET l == loc[t].l
         fail == <<"il_unlockT", [loc[t] EXCEPT !.rc = OFFLOAD_FAIL]>>
     IN
     IF l > NumLibs
     THEN /\ load = "ok"
          /\ Goto(t, <<"il_unlockT", loc[t]>>)
          /\ UNCHANGED <<hist, TargetsTable, TargetsImages>>
     ELSE IF ~Registered[l] \/ TargetsTable[l]
     THEN /\ load = "ok"
          /\ Goto(t, <<"il_tables", [loc[t] EXCEPT !.l = l + 1]>>)
          /\ UNCHANGED <<hist, TargetsTable, TargetsImages>>
     ELSE IF ~TargetsImages[l]
     THEN /\ load = "ok"
          /\ Goto(t, fail)
          /\ UNCHANGED <<hist, TargetsTable, TargetsImages>>
     ELSE /\ hist' = [hist EXCEPT !.loads[l] = @ + 1]
          /\ TargetsTable' = [TargetsTable EXCEPT ![l] = (load = "ok")]
          /\ TargetsImages' = [TargetsImages EXCEPT ![l] = (load = "ok")]
          /\ IF load = "ok" THEN Goto(t, <<"il_lockD", loc[t]>>)
             ELSE Goto(t, fail)
  /\ UNCHANGED <<mtx, HostDataToTargetMap, HostPtrToTableMap, PendingCtors,
                 HasPendingGlobals, restVars>>
\* "Device.DataMapMtx.lock();"
InitLibrary_LockMap(t) == LockStep(t, "il_lockD", "il_globals")
\* "process global data that needs to be mapped ... DataMapMtx.unlock();"
InitLibrary_Globals(t) ==
  /\ pc[t] = "il_globals"
  /\ Free(Wants(t))
  /\ HostDataToTargetMap' =
       MapGlobals(HostDataToTargetMap, LibEntries(loc[t].l), 1)
  /\ mtx' = Drop(t, {"DataMapMtx"})
  /\ Goto(t, <<"il_tables", [loc[t] EXCEPT !.l = @ + 1]>>)
  /\ UNCHANGED <<hist, HostPtrToTableMap, TargetsTable, TargetsImages,
                 PendingCtors, HasPendingGlobals, restVars>>
\* "TrlTblMtx.unlock(); if (rc != OFFLOAD_SUCCESS) {
\*  Device.PendingGlobalsMtx.unlock(); return rc; }"
InitLibrary_UnlockTables(t) ==
  /\ pc[t] = "il_unlockT"
  /\ IF loc[t].rc # OFFLOAD_SUCCESS
     THEN /\ mtx' = Drop(t, {"TrlTblMtx", "PendingGlobalsMtx"})
          /\ Goto(t, Body(loc[t], OFFLOAD_FAIL))
     ELSE /\ mtx' = Drop(t, {"TrlTblMtx"})
          /\ Goto(t, <<"il_ctors", [loc[t] EXCEPT !.l = 1, !.i = 1]>>)
  /\ UNCHANGED <<hist, dataVars, restVars>>
\* "Run ctors for static objects": one round of the loops over the
\* libraries and their pending constructors.
InitLibrary_Ctors(t) ==
  /\ pc[t] = "il_ctors"
  /\ LET l == loc[t].l
         i == loc[t].i
     IN
     IF l > NumLibs
     THEN /\ HasPendingGlobals' = FALSE
          /\ mtx' = Drop(t, {"PendingGlobalsMtx"})
          /\ Goto(t, Body(loc[t], OFFLOAD_SUCCESS))
          /\ UNCHANGED PendingCtors
     ELSE IF ~PendingCtors[l]
     THEN /\ Goto(t, <<"il_ctors", [loc[t] EXCEPT !.l = l + 1, !.i = 1]>>)
          /\ UNCHANGED <<mtx, PendingCtors, HasPendingGlobals>>
     ELSE IF i > Len(Ctors(l))
     THEN /\ PendingCtors' = [PendingCtors EXCEPT ![l] = FALSE]
          /\ Goto(t, <<"il_ctors", [loc[t] EXCEPT !.l = l + 1, !.i = 1]>>)
          /\ UNCHANGED <<mtx, HasPendingGlobals>>
     ELSE /\ Goto(t, <<"tg_lockM", [loc[t] EXCEPT !.host_ptr = Ctors(l)[i],
                                                  !.ret = "il_ctorret"]>>)
          /\ UNCHANGED <<mtx, PendingCtors, HasPendingGlobals>>
  /\ UNCHANGED <<hist, HostDataToTargetMap, HostPtrToTableMap, TargetsTable,
                 TargetsImages, restVars>>
\* "if (rc != OFFLOAD_SUCCESS) { Device.PendingGlobalsMtx.unlock();
\*  return OFFLOAD_FAIL; }"
InitLibrary_CtorDone(t) ==
  /\ pc[t] = "il_ctorret"
  /\ IF loc[t].rc # OFFLOAD_SUCCESS
     THEN /\ mtx' = Drop(t, {"PendingGlobalsMtx"})
          /\ Goto(t, Body(loc[t], OFFLOAD_FAIL))
     ELSE /\ mtx' = mtx
          /\ Goto(t, <<"il_ctors", [loc[t] EXCEPT !.i = @ + 1]>>)
  /\ UNCHANGED <<hist, dataVars, restVars>>

(* target *)
\* "TblMapMtx.lock();"
Target_LockMap(t) == LockStep(t, "tg_lockM", "tg_find")
\* "HostPtrToTableMap.find(host_ptr)"
Target_Find(t) ==
  /\ pc[t] = "tg_find"
  /\ \E hit \in {{e \in HostPtrToTableMap : e.host_ptr = loc[t].host_ptr}} :
       IF hit # {}
       THEN Goto(t, <<"tg_unlockM", [loc[t] EXCEPT !.TM = hit,
                                                   !.scanned = FALSE]>>)
       ELSE Goto(t, <<"tg_lockT", loc[t]>>)
  /\ UNCHANGED <<mtx, hist, dataVars, restVars>>
\* "TrlTblMtx.lock();"
Target_LockTables(t) == LockStep(t, "tg_lockT", "tg_search")
\* "search all the registered libraries ... TrlTblMtx.unlock();"
Target_Search(t) ==
  /\ pc[t] = "tg_search"
  /\ \E found \in {SearchTables(loc[t].host_ptr)} :
       /\ HostPtrToTableMap' =
            CacheInsert(HostPtrToTableMap, loc[t].host_ptr, found)
       /\ hist' = [hist EXCEPT !.found = @ + Cardinality(found)]
       /\ Goto(t, <<"tg_unlockM", [loc[t] EXCEPT !.TM = found,
                                                 !.scanned = TRUE]>>)
  /\ mtx' = Drop(t, {"TrlTblMtx"})
  /\ UNCHANGED <<HostDataToTargetMap, TargetsTable, TargetsImages,
                 PendingCtors, HasPendingGlobals, restVars>>
\* "TblMapMtx.unlock(); if (!TM) return OFFLOAD_FAIL;"
Target_UnlockMap(t) ==
  /\ pc[t] = "tg_unlockM"
  /\ mtx' = Drop(t, {"TblMapMtx"})
  /\ IF loc[t].TM = {} THEN Goto(t, Return(loc[t], OFFLOAD_FAIL))
     ELSE Goto(t, <<"tg_lockT2", loc[t]>>)
  /\ UNCHANGED <<hist, dataVars, restVars>>
\* "TrlTblMtx.lock();"
Target_LockTable(t) == LockStep(t, "tg_lockT2", "tg_table")
\* "TargetTable = TM->Table->TargetsTable[device_id]; TrlTblMtx.unlock();"
\* and, for a region with an argument, the call of target_data_begin
Target_Table(t) ==
  /\ pc[t] = "tg_table"
  /\ mtx' = Drop(t, {"TrlTblMtx"})
  /\ IF loc[t].ret = "il_ctorret" THEN Goto(t, <<"tg_launch", loc[t]>>)
     ELSE Goto(t, <<"ga_lock", loc[t]>>)
  /\ UNCHANGED <<hist, dataVars, restVars>>
\* "Launch device execution"; ok: run_team_region does not fail
Target_Launch(t, ok) ==
  /\ pc[t] = "tg_launch"
  /\ IF loc[t].ret = "il_ctorret"
     THEN /\ hist' = [hist EXCEPT !.runs[loc[t].l][loc[t].i] = @ + 1]
          /\ Goto(t, Return(loc[t], IF ok THEN OFFLOAD_SUCCESS
                                    ELSE OFFLOAD_FAIL))
     ELSE /\ hist' = hist
          /\ IF ok THEN Goto(t, <<"gt_lock", loc[t]>>)
             ELSE Goto(t, Return(loc[t], OFFLOAD_FAIL))
  /\ UNCHANGED <<mtx, dataVars, restVars>>

(* the operations on the map *)
\* DeviceTy::getOrAllocTgtPtr: "DataMapMtx.lock();"
GetOrAlloc_Lock(t) == LockStep(t, "ga_lock", "ga_look")
\* DeviceTy::getOrAllocTgtPtr: "LookupResult lr = lookupMapping(...)"
GetOrAlloc_Look(t) ==
  /\ pc[t] = "ga_look"
  /\ Goto(t, <<"ga_apply", [loc[t] EXCEPT !.seen = HostDataToTargetMap]>>)
  /\ UNCHANGED <<mtx, hist, dataVars, restVars>>
\* DeviceTy::getOrAllocTgtPtr: the entry is counted or made,
\* "DataMapMtx.unlock(); return rc;"
GetOrAlloc_Apply(t) ==
  /\ pc[t] = "ga_apply"
  /\ \E r \in {getOrAllocTgtPtr(loc[t].seen, ThreadRange.hb, ThreadRange.hb,
                               ThreadRange.size, FALSE, TRUE,
                               [alloc |-> TRUE, junk |-> FALSE])} :
       /\ HostDataToTargetMap' = r.map
       /\ hist' = [hist EXCEPT !.allocs = @ + Len(r.drv)]
       /\ Goto(t, <<IF loc[t].op = "target" THEN "tg_launch" ELSE "sh_lock",
                    [loc[t] EXCEPT !.seen = <<>>, !.ptr = r.rc,
                                   !.flag = r.flag]>>)
  /\ mtx' = Drop(t, MethodLocks("getOrAllocTgtPtr"))
  /\ UNCHANGED <<HostPtrToTableMap, TargetsTable, TargetsImages,
                 PendingCtors, HasPendingGlobals, restVars>>
\* DeviceTy::getTgtPtrBegin(HstPtrBegin, Size, IsLast, UpdateRefCount):
\* "DataMapMtx.lock();"
GetTgtPtr_Lock(t) == LockStep(t, "gt_lock", "gt_look")
\* DeviceTy::getTgtPtrBegin: "LookupResult lr = lookupMapping(...)"
GetTgtPtr_Look(t) ==
  /\ pc[t] = "gt_look"
  /\ Goto(t, <<"gt_apply", [loc[t] EXCEPT !.seen = HostDataToTargetMap]>>)
  /\ UNCHANGED <<mtx, hist, dataVars, restVars>>
\* DeviceTy::getTgtPtrBegin: the count is taken down, IsLast is set,
\* "DataMapMtx.unlock(); return rc;".  target_data_update passes no
\* UpdateRefCount and skips a range that is not mapped.
GetTgtPtr_Apply(t) ==
  /\ pc[t] = "gt_apply"
  /\ \E r \in {getTgtPtrBeginRef(loc[t].seen, ThreadRange.hb,
                                ThreadRange.size,
                                loc[t].op # "target_data_update")} :
       /\ HostDataToTargetMap' = r.map
       /\ \E lc \in {[loc[t] EXCEPT !.seen = <<>>, !.ptr = r.rc,
                                    !.flag = r.flag]} :
            IF loc[t].op = "target_data_update" /\ r.rc = NULL
            THEN Goto(t, Return(lc, OFFLOAD_SUCCESS))
            ELSE Goto(t, <<"sh_lock", lc>>)
  /\ mtx' = Drop(t, MethodLocks("getTgtPtrBegin/4"))
  /\ UNCHANGED <<hist, HostPtrToTableMap, TargetsTable, TargetsImages,
                 PendingCtors, HasPendingGlobals, restVars>>
\* "Device.ShadowMtx.lock();"
Shadow_Lock(t) == LockStep(t, "sh_lock", "sh_body")
\* The shadow pointers of the range are kept, restored or removed,
\* "Device.ShadowMtx.unlock();"; the end of a region then deallocates an
\* entry that IsLast was reported for.
Shadow_Unlock(t) ==
  /\ pc[t] = "sh_body"
  /\ mtx' = Drop(t, {"ShadowMtx"})
  /\ IF loc[t].op \in {"target", "target_data_end"} /\ loc[t].flag
     THEN /\ Goto(t, <<"de_lock", loc[t]>>)
          /\ ShadowPtrMap' =
               ShadowScan([shadow |-> ShadowPtrMap, host |-> hostMem,
                           drv |-> <<>>],
                          ShadowUpperBound(ShadowPtrMap,
                            ThreadRange.hb + ThreadRange.size, 1),
                          ThreadRange.hb, FALSE, TRUE).shadow
     ELSE /\ Goto(t, Return(loc[t], OFFLOAD_SUCCESS))
          /\ ShadowPtrMap' = ShadowPtrMap
  /\ UNCHANGED <<hist, dataVars, hostMem, devMem, UpdatePtrList, SegmentList,
                 TgtList, calls, last, cfgVars, Registered>>
\* target_data_update, the copy to the device: the data_submit of a shadow
\* pointer of the range fails, "Device.ShadowMtx.unlock();
\* return OFFLOAD_FAIL;"
ShadowInRange ==
  \E i \in 1..Len(ShadowPtrMap) :
    /\ ThreadRange.hb <= ShadowPtrMap[i].HstPtrAddr
    /\ ShadowPtrMap[i].HstPtrAddr < ThreadRange.hb + ThreadRange.size
Shadow_Fail_Locked(t) ==
  /\ pc[t] = "sh_body"
  /\ loc[t].op = "target_data_update"
  /\ ShadowInRange
  /\ mtx' = mtx
  /\ Goto(t, Return(loc[t], OFFLOAD_FAIL))
  /\ UNCHANGED <<hist, dataVars, restVars>>
Shadow_Fail(t) ==
  /\ pc[t] = "sh_body"
  /\ loc[t].op = "target_data_update"
  /\ ShadowInRange
  /\ mtx' = Drop(t, {"ShadowMtx"})
  /\ Goto(t, Return(loc[t], OFFLOAD_FAIL))
  /\ UNCHANGED <<hist, dataVars, restVars>>
\* DeviceTy::deallocTgtPtr: "DataMapMtx.lock();"
Dealloc_Lock(t) == LockStep(t, "de_lock", "de_body")
\* DeviceTy::deallocTgtPtr: the entry is erased when its count is 0,
\* "DataMapMtx.unlock(); return rc;"
Dealloc_Apply(t) ==
  /\ pc[t] = "de_body"
  /\ \E r \in {deallocTgtPtr(HostDataToTargetMap, ThreadRange.hb,
                            ThreadRange.size, FALSE)} :
       /\ HostDataToTargetMap' = r.map
       /\ Goto(t, Return(loc[t], r.rc))
  /\ mtx' = Drop(t, MethodLocks("deallocTgtPtr"))
  /\ UNCHANGED <<hist, HostPtrToTableMap, TargetsTable, TargetsImages,
                 PendingCtors, HasPendingGlobals, restVars>>

\* The device at the first call: a library is registered and nothing is
\* loaded, or the library is loaded, its constructors have run and the
\* range of the threads is mapped ref0 times.
MappedRange(n) ==
  IF n = 0 THEN MapGlobals(<<>>, LibEntries(1), 1)
  ELSE SetEmplace(MapGlobals(<<>>, LibEntries(1), 1),
                  HostDataToTargetTyRF(ThreadRange.hb, ThreadRange.hb,
                                       ThreadRange.hb + ThreadRange.size,
                                       TgtDelta + ThreadRange.hb, n))
\* A pointer the mapped range holds, attached by the region that mapped it.
RangeShadow ==
  <<ShadowPtrValTy(ThreadRange.hb, ReadPtr(InitHostMem, ThreadRange.hb),
                   TgtDelta + ThreadRange.hb,
                   TgtDelta + ReadPtr(InitHostMem, ThreadRange.hb))>>
InitThreads ==
  /\ hostMem = InitHostMem
  /\ devMem = [a \in DevCells |-> 0]
  /\ UpdatePtrList = <<>> /\ SegmentList = {} /\ TgtList = <<>>
  /\ calls = 0
  /\ last = [op |-> "none", cause |-> "none", note |-> {}]
  /\ IsBulkEnabled = FALSE /\ IsNoBulkEnabled = FALSE /\ IsATEnabled = FALSE
  /\ ATMode = {}
  /\ HostPtrToTableMap = {}
  /\ Registered = [l \in Libs |-> TRUE]
  /\ TargetsImages = [l \in Libs |-> TRUE]
  /\ pc = [t \in Threads |-> "idle"]
  /\ loc = [t \in Threads |-> NoLocals]
  /\ mtx = [m \in Mutexes |-> 0]
  /\ HasPendingGlobals \in BOOLEAN
  /\ TargetsTable = [l \in Libs |-> ~HasPendingGlobals]
  /\ PendingCtors = [l \in Libs |-> HasPendingGlobals]
  /\ \E n \in 0..MaxThreads :
       /\ HasPendingGlobals => n = 0
       /\ hist = [NoHist EXCEPT !.ref0 = n]
       /\ HostDataToTargetMap =
            IF HasPendingGlobals THEN <<>> ELSE MappedRange(n)
       /\ ShadowPtrMap \in
            IF n = 0 THEN {<<>>} ELSE {<<>>, RangeShadow}

NextThreads ==
  \E t \in Threads :
    \/ \E op \in ThreadOps, host_ptr \in {KernelEntry, NULL} :
         Call(t, op, host_ptr)
    \/ CheckDevice_Lock(t)
    \/ CheckDevice_Read(t)
    \/ InitLibrary_LockGlobals(t)
    \/ InitLibrary_LockTables(t)
    \/ \E load \in {"ok", "fail", "mismatch"} : InitLibrary_Table(t, load)
    \/ InitLibrary_LockMap(t)
    \/ InitLibrary_Globals(t)
    \/ InitLibrary_UnlockTables(t)
    \/ InitLibrary_Ctors(t)
    \/ InitLibrary_CtorDone(t)
    \/ Target_LockMap(t)
    \/ Target_Find(t)
    \/ Target_LockTables(t)
    \/ Target_Search(t)
    \/ Target_UnlockMap(t)
    \/ Target_LockTable(t)
    \/ Target_Table(t)
    \/ \E ok \in BOOLEAN : Target_Launch(t, ok)
    \/ GetOrAlloc_Lock(t)
    \/ GetOrAlloc_Look(t)
    \/ GetOrAlloc_Apply(t)
    \/ GetTgtPtr_Lock(t)
    \/ GetTgtPtr_Look(t)
    \/ GetTgtPtr_Apply(t)
    \/ Shadow_Lock(t)
    \/ Shadow_Unlock(t)
    \/ Shadow_Fail(t)
    \/ Dealloc_Lock(t)
    \/ Dealloc_Apply(t)

SpecThreads == InitThreads /\ [][NextThreads]_vars

(* ----------------- the initialization of the globals ------------------ *)
\* The thread is inside InitLibrary, past its "PendingGlobalsMtx.lock()".
InInit(t) ==
  \/ pc[t] \in {"il_lockT", "il_tables", "il_lockD", "il_globals",
                "il_unlockT", "il_ctors", "il_ctorret"}
  \/ loc[t].ret = "il_ctorret"

\* C24: whatever the interleaving of the calls of CheckDeviceAndCtors, and
\* also after an attempt that failed part-way, the image of each library is
\* loaded at most once and each pending constructor is executed at most
\* once; while one thread initializes, no other does.
C24_Once ==
  /\ \A l \in Libs : hist.loads[l] <= 1
  /\ \A l \in Libs : \A i \in 1..Len(Ctors(l)) : hist.runs[l][i] <= 1
  /\ \A t \in Threads : InInit(t) => mtx["PendingGlobalsMtx"] = t

\* What InitLibrary does keep: an image is loaded at most once, one thread
\* at a time is inside InitLibrary, and the constructors of a library are
\* run in the order of its list, from the first one, in every attempt.
InitLibraryOnce ==
  /\ \A l \in Libs : hist.loads[l] <= 1
  /\ \A t \in Threads : InInit(t) => mtx["PendingGlobalsMtx"] = t
  /\ \A l \in Libs : \A i \in 1..(Len(Ctors(l)) - 1) :
       hist.runs[l][i + 1] <= hist.runs[l][i]
  /\ \A l \in Libs : \A i \in 1..Len(Ctors(l)) :
       hist.runs[l][i] > 1 => hist.ref0 = 0

(* ------------------------- waiting on a mutex ------------------------- *)
\* The thread is inside a call; it waits for a mutex another call owns.
Active(t) == pc[t] \notin {"idle", "done"}
Blocked(t) == ~Free(Wants(t))

\* C25: with the threads running CheckDeviceAndCtors / InitLibrary, target,
\* target_data_begin, target_data_end and target_data_update on the device
\* and every driver call returning, no thread waits for ever on a mutex:
\* whenever a thread waits, some thread inside a call can take its next
\* step, and no mutex is left locked by a call that has returned.
C25_NoDeadlock ==
  /\ (\E t \in Threads : Blocked(t)) =>
       \E u \in Threads : Active(u) /\ ~Blocked(u)
  /\ \A m \in Mutexes : mtx[m] # 0 => Active(mtx[m])

\* A thread waits for PendingGlobalsMtx while another one, inside
\* InitLibrary, searches the tables for a constructor with PendingGlobalsMtx,
\* TblMapMtx and TrlTblMtx locked; and InitLibrary has called getTgtPtrBegin
\* with DataMapMtx locked.
C25_Witness ==
  /\ \E t, u \in Threads :
       /\ pc[t] = "cd_lock" /\ Blocked(t)
       /\ pc[u] = "tg_search" /\ loc[u].ret = "il_ctorret"
       /\ mtx["PendingGlobalsMtx"] = u /\ mtx["TblMapMtx"] = u
       /\ mtx["TrlTblMtx"] = u
  /\ HostDataToTargetMap # <<>>

(* -------------------- the operations on the map, at once -------------- *)
\* The threads whose getOrAllocTgtPtr, and whose getTgtPtrBegin with
\* UpdateRefCount, has returned; a thread that has not touched the map.
Allocated ==
  {t \in Threads : loc[t].op = "target_data_begin"
                   /\ pc[t] \in {"sh_lock", "sh_body", "done"}
                   /\ loc[t].rc = OFFLOAD_SUCCESS}
Released ==
  {t \in Threads : loc[t].op = "target_data_end"
                   /\ pc[t] \in {"sh_lock", "sh_body", "de_lock", "de_body",
                                 "done"}}
Quiet(t) == loc[t].op \in {"none", "CheckDeviceAndCtors"}
RangeEntries ==
  {i \in 1..Len(HostDataToTargetMap) :
     HostDataToTargetMap[i].HstPtrBegin = ThreadRange.hb}

\* C26: when K threads call getOrAllocTgtPtr with UpdateRefCount at once for
\* the same range, not mapped before, the driver allocates once, exactly one
\* caller gets IsNew, all get the same device pointer and the reference
\* count of the entry is K; and of K threads that call getTgtPtrBegin with
\* UpdateRefCount for an entry with count K, exactly one gets IsLast.
C26_Atomic ==
  /\ (/\ hist.ref0 = 0 /\ Allocated # {}
      /\ \A t \in Threads \ Allocated : Quiet(t))
     => /\ hist.allocs = 1
        /\ Cardinality({t \in Allocated : loc[t].flag}) = 1
        /\ \A t \in Allocated : loc[t].ptr = TgtDelta + ThreadRange.hb
        /\ Cardinality(RangeEntries) = 1
        /\ \A i \in RangeEntries :
             HostDataToTargetMap[i].RefCount = Cardinality(Allocated)
  /\ (/\ hist.ref0 > 0 /\ Cardinality(Released) = hist.ref0
      /\ \A t \in Threads \ Released : Quiet(t))
     => Cardinality({t \in Released : loc[t].flag}) = 1

\* Every thread has mapped the range and has returned: one of them made
\* the entry, the others found it.
C26_Witness ==
  /\ hist.ref0 = 0
  /\ Allocated = Threads
  /\ \A t \in Threads : pc[t] = "done"
  /\ \E t \in Threads : ~loc[t].flag
  /\ hist.allocs = 1

(* ------------------------- the table cache ---------------------------- *)
\* The thread is between "TblMapMtx.lock()" and "TblMapMtx.unlock()" of
\* target(), where HostPtrToTableMap is searched and filled.
InLookup(t) == pc[t] \in {"tg_find", "tg_lockT", "tg_search", "tg_unlockM"}
\* The thread has resolved the entry of its host pointer.
Resolved(t) ==
  /\ loc[t].TM # {}
  /\ pc[t] \notin {"tg_lockM", "tg_find", "tg_lockT", "tg_search"}

Held(t) == {m \in Mutexes : mtx[m] = t}
Outer(t) ==
  IF loc[t].ret = "il_ctorret" THEN {"PendingGlobalsMtx"} ELSE {}
\* The places between the locked sections of target() and of the data
\* operations, and the places a function has returned to.
Unlocked == {"tg_lockM", "tg_launch", "ga_lock", "gt_lock", "sh_lock",
             "de_lock", "il_ctorret"}

\* C37: a thread that reads or writes ShadowPtrMap in target_data_begin,
\* target_data_end or target_data_update owns ShadowMtx; a thread that
\* inserts into the map in InitLibrary owns DataMapMtx; and a thread that
\* has returned from InitLibrary, target() or a data operation, by an error
\* return as well, owns none of the mutexes that function locked.
C37_LockDiscipline ==
  \A t \in Threads :
    /\ pc[t] = "sh_body" => mtx["ShadowMtx"] = t
    /\ pc[t] = "il_globals" => mtx["DataMapMtx"] = t
    /\ pc[t] \in {"idle", "done"} => Held(t) = {}
    /\ pc[t] \in Unlocked => Held(t) = Outer(t)

\* A thread has left target_data_update by the error return inside the loop
\* over the shadow pointers, and owns no mutex.
C37_Witness ==
  \E t \in Threads :
    /\ pc[t] = "done" /\ loc[t].op = "target_data_update"
    /\ loc[t].rc = OFFLOAD_FAIL /\ loc[t].ptr # NULL
    /\ Held(t) = {}

(* --------------------- the probes of AddrTrans ------------------------ *)
\* "while (head < end)": the iterations of the search, each with the head,
\* the end and the probe it computes, up to MaxIter of them.
RECURSIVE ATProbes(_, _, _, _, _, _)
ATProbes(addr_int, table, e, head, end, n) ==
  IF ~(head < end) \/ n = 0 THEN <<>>
  ELSE Once({Once({
         <<[head |-> head, end |-> end, mid |-> mid]>> \o
         (IF addr_int >= t.HstPtrBegin
          THEN IF addr_int < t.HstPtrEnd THEN <<>>
               ELSE ATProbes(addr_int, table, e, mid + 1, end, n - 1)
          ELSE ATProbes(addr_int, table, e, head, mid, n - 1)) :
         t \in {IF mid \in DOMAIN table THEN table[mid] ELSE e}}) :
       mid \in {Mid(head, end)}})

\* C39: for every table of N >= 0 segments and every address, each probe
\* of AddrTrans lies in [head, end), so within entries 1..N, the interval
\* [head, end) shrinks with every iteration, and the loop ends after at most
\* N iterations.
C39_Probes ==
  \A addr \in ATAddrs, e \in Beyond :
    LET tr == ATProbes(addr, devMem, e, 1, devMem[0].HstPtrBegin + 1, MaxIter)
    IN devMem \in ATTables =>
         /\ \A k \in 1..Len(tr) :
              /\ tr[k].head <= tr[k].mid /\ tr[k].mid < tr[k].end
              /\ tr[k].mid \in 1..devMem[0].HstPtrBegin
         /\ \A k \in 1..(Len(tr) - 1) :
              tr[k + 1].end - tr[k + 1].head < tr[k].end - tr[k].head
         /\ Len(tr) <= devMem[0].HstPtrBegin
         /\ AddrTrans(addr, devMem, e).ended

\* What the probes are: the first one is entry 2 * (N + 2), at or past the
\* end of [head, end); a table without segments is not probed.
FirstProbe ==
  \A addr \in ATAddrs, e \in Beyond :
    LET tr == ATProbes(addr, devMem, e, 1, devMem[0].HstPtrBegin + 1, MaxIter)
    IN devMem \in ATTables =>
         IF devMem[0].HstPtrBegin = 0 THEN tr = <<>>
         ELSE /\ tr # <<>>
              /\ tr[1].mid = 2 * (devMem[0].HstPtrBegin + 2)
              /\ tr[1].mid >= tr[1].end

(* ------------- the table of target() under AddrTrans ------------------ *)
\* The segments a launch appends to TgtList after its header, and the
\* table they make: entry 0 the header, entries 1..N the segments.
Serialized(before, after) == SubSeq(after, Len(before) + 2, Len(after))
AsTable(segs) ==
  [i \in 0..Len(segs) |->
     IF i = 0 THEN ATTableTy(Len(segs), 0, 0)
     ELSE ATTableTy(segs[i].HstPtrBegin, segs[i].HstPtrEnd,
                    segs[i].TgtPtrBegin)]

\* C40: the segments target() serializes after the header are in ascending
\* order of HstPtrBegin, the order the search of AddrTrans assumes, and for
\* every address inside one of them AddrTrans, on that table, finds the
\* segment.
C40_TableOrder ==
  \A al \in TargetLists, o \in TargetOracles :
    LET r == target(St, TRUE, al, o)
        segs == Serialized(TgtList, r.TgtList)
    IN (/\ calls < MaxLaunches /\ "AT_TABLE" \in ATMode /\ WellFormed(al)
        /\ Launched(r.drv)) =>
         /\ \A j, k \in 1..Len(segs) :
              j < k => segs[j].HstPtrBegin < segs[k].HstPtrBegin
         /\ \A k \in 1..Len(segs) : \A e \in Beyond :
              AddrTrans(segs[k].HstPtrBegin, AsTable(segs), e).ret =
                segs[k].TgtPtrBegin

\* What target() serializes: the segments in the order of the list's
\* comparator, std::greater, the highest HstPtrBegin first.
TableDescending ==
  \A al \in TargetLists, o \in TargetOracles :
    LET r == target(St, TRUE, al, o)
        segs == Serialized(TgtList, r.TgtList)
    IN (/\ calls < MaxLaunches /\ "AT_TABLE" \in ATMode /\ WellFormed(al)
        /\ Launched(r.drv)) =>
         /\ segs = SegSeq(r.seg)
         /\ \A j, k \in 1..Len(segs) :
              j < k => segs[j].HstPtrBegin > segs[k].HstPtrBegin

(* ------------------ regions with nested descriptors ------------------- *)
\* The struct S named from its second cell, so that its begin address is
\* not a multiple of the alignment, with its field r as a member.
OddS == StructS + Cell
OddStruct ==
  <<Arg(OddS, OddS, Cell + SizeofPtr, TF, 0),
    Arg(OddS, FieldR, SizeofPtr, TF, 1)>>
\* The struct S as a nested argument followed by its member r, and the
\* array X as a nested argument followed by the array Y.
NestedStruct ==
  <<Arg(StructS, StructS, 2 * SizeofPtr, TF \cup {"NESTED"}, 0),
    Arg(StructS, FieldR, SizeofPtr, TF, 1)>>
NestedArray ==
  <<Arg(ArrayX, ArrayX, alignment, TF \cup {"NESTED"}, 0),
    Arg(ArrayY, ArrayY, alignment, TF, 0)>>
NestedLists == {OddStruct, NestedStruct, NestedArray}
\* The struct S with its field q as a pointer to the array X, of which the
\* section from the second cell on is mapped.
SectionArgs ==
  <<Arg(StructS, StructS, 2 * SizeofPtr, TF, 0),
    Arg(FieldQ, ArrayX + Cell, Cell, TF \cup {"PTR_AND_OBJ"}, 1)>>
\* The field q as a pointer to the array X, passed on its own.
PointerArgs == <<Arg(FieldQ, ArrayX, alignment, TF \cup {"PTR_AND_OBJ"}, 0)>>
SectionLists == {SectionArgs, StructArgs, PointerArgs}
\* The pointer of a pointer-and-object argument points into the object, at
\* the section or before it.
Pointing(al) ==
  \A k \in 1..Len(al) :
    Has(al[k].type, "PTR_AND_OBJ") =>
      ReadPtr(hostMem, al[k].base) \in {al[k].begin - Cell, al[k].begin}

\* The regions a descriptor yields: none; the arrays X and Y; the second
\* cell of S, once as a region of its own and once as a member of the
\* nested argument; and the arrays with a first region whose type does not
\* carry NESTED.
RegionSeqs ==
  { <<>>,
    <<Arg(ArrayX, ArrayX, alignment, TF \cup {"NESTED"}, 0),
      Arg(ArrayY, ArrayY, alignment, TF \cup {"NESTED"}, 0)>>,
    <<Arg(OddS, OddS, Cell, TF \cup {"NESTED"}, 0)>>,
    <<Arg(StructS, OddS, Cell, TF \cup {"NESTED"}, 1)>>,
    <<Arg(ArrayX, ArrayX, alignment, TF, 0),
      Arg(ArrayY, ArrayY, alignment, TF \cup {"NESTED"}, 0)>> }
Descriptors ==
  [init : {RTT_SUCCESS, RTT_FAIL}, fail : 0..MaxRegions, regions : RegionSeqs]
\* The plugin serves every request of these calls.
NestedOracles ==
  [failAlloc : {0}, failXfer : {0}, junk : BOOLEAN, rtt : Descriptors]

NestedDataBegin(al, o) ==
  /\ calls < MaxNested
  /\ Pointing(al)
  /\ \E r \in {target_data_begin(St, al, o)} :
       Admissible(r, o) /\ Commit(r, "target_data_begin")

NestedDataEnd(al, o) ==
  /\ calls < MaxNested
  /\ \E r \in {target_data_end(St, al, o)} :
       Admissible(r, o) /\ Commit(r, "target_data_end")

NextNested ==
  \/ \E al \in NestedLists \cup SectionLists, o \in NestedOracles :
       NestedDataBegin(al, o)
  \/ \E al \in NestedLists \cup SectionLists, o \in NestedOracles :
       NestedDataEnd(al, o)

SpecNested == InitRegion /\ [][NextNested]_vars

\* The (begin, size) pairs a call hands to getOrAllocTgtPtr for the
\* arguments and regions themselves, and to getTgtPtrBegin.
Mapped(drv, from) ==
  {<<drv[i].hst, drv[i].size>> :
     i \in {j \in (from + 1)..Len(drv) : drv[j].call = "getOrAllocTgtPtr"}}
LookedFor(drv, from) ==
  {<<drv[i].hst, drv[i].size>> :
     i \in {j \in (from + 1)..Len(drv) : drv[j].call = "getTgtPtrBegin"}}
\* A descriptor that never fails.
Sound(o) == o.rtt.init = RTT_SUCCESS /\ o.rtt.fail = 0

\* C31: an argument is padded exactly when it is not MEMBER_OF anything and
\* the next argument is MEMBER_OF it, by HstPtrBegin mod 8, and for every
\* argument and every region of a nested descriptor the (begin, size) pairs
\* target_data_end looks up are the pairs target_data_begin and
\* bulk_target_data_begin mapped.
C31_PaddingAgreement ==
  \A al \in NestedLists, o \in NestedOracles :
    LET b == target_data_begin(St, al, o)
        e == target_data_end(b, al, o)
    IN (WellFormed(al) /\ Sound(o) /\ b.rc = OFFLOAD_SUCCESS) =>
         LookedFor(e.drv, Len(b.drv)) = Mapped(b.drv, 0)

\* The same of the immediate path alone, and of every argument that is not
\* nested on both paths.
PaddingAgreesImmediate == ~IsBulkEnabled => C31_PaddingAgreement
PaddingAgreesPlain ==
  LET al == OddStruct IN
  \A o \in NestedOracles :
    LET b == target_data_begin(St, al, o)
        e == target_data_end(b, al, o)
    IN b.rc = OFFLOAD_SUCCESS =>
         /\ LookedFor(e.drv, Len(b.drv)) = Mapped(b.drv, 0)
         /\ <<StructS, 2 * SizeofPtr>> \in Mapped(b.drv, 0)
         /\ <<FieldR, SizeofPtr>> \in Mapped(b.drv, 0)

\* The calls of the descriptor a region call made for argument k, in order.
RttCalls(drv) ==
  {i \in 1..Len(drv) : drv[i].call \in {"newRttObject", "computeRegion"}}
RttFailed(drv) ==
  \E i \in RttCalls(drv) : drv[i].ret \notin {RTT_SUCCESS, RTT_END}

\* C38: a descriptor failure, of newRttObject or of computeRegion, makes
\* target_data_begin and target_data_end return failure; otherwise the body
\* of the loop runs once for each region the descriptor yields until it
\* reports its end.
C38_NestedFailure ==
  \A al \in NestedLists, o \in NestedOracles :
    LET b == target_data_begin(St, al, o)
        e == target_data_end(St, al, o)
    IN /\ (WellFormed(al) /\ RttFailed(b.drv)) => b.rc = OFFLOAD_FAIL
       /\ RttFailed(e.drv) => e.rc = OFFLOAD_FAIL

\* What the loops do: a failure of computeRegion is a failure of the call,
\* a failure of newRttObject skips the argument.
ComputeFailed(drv) ==
  \E i \in RttCalls(drv) : drv[i].call = "computeRegion"
                           /\ drv[i].ret = RTT_FAIL
InitFailed(drv) ==
  \E i \in RttCalls(drv) : drv[i].call = "newRttObject" /\ drv[i].ret = RTT_FAIL
NestedFailureAsCoded ==
  \A al \in NestedLists, o \in NestedOracles :
    LET b == target_data_begin(St, al, o)
        e == target_data_end(St, al, o)
    IN /\ (WellFormed(al) /\ ComputeFailed(b.drv)) => b.rc = OFFLOAD_FAIL
       /\ ComputeFailed(e.drv) => e.rc = OFFLOAD_FAIL
       /\ InitFailed(e.drv) => e.rc = OFFLOAD_SUCCESS
       /\ InitFailed(e.drv) =>
            \A i \in RttCalls(e.drv) : e.drv[i].call = "newRttObject"

(* -------------------- the pointer patch of a begin -------------------- *)
\* What target_data_begin does with the pointer-and-object argument k of al
\* from the current state: the calls of the step, the two mappings it asks
\* for (slot, then pointee), the transfers to the slot and to the pointee.
PatchCase(al, k, o) ==
  LET a == BeginPrefix(St, al, k - 1, o)
      b == BeginArg(a, al, k, o)
      tr == SubSeq(b.drv, Len(a.drv) + 1, Len(b.drv))
      gets == {i \in 1..Len(tr) : tr[i].call = "getOrAllocTgtPtr"}
      slot == CHOOSE i \in gets : \A h \in gets : i <= h
      obj == CHOOSE i \in gets : \A h \in gets : h <= i
  IN [run |-> a.rc = OFFLOAD_SUCCESS /\ b.rc = OFFLOAD_SUCCESS,
      V |-> ReadPtr(a.host, al[k].base),
      gets |-> gets, slot |-> slot, obj |-> obj, tr |-> tr,
      patches |-> {i \in 1..Len(tr) : tr[i].call = "data_submit"
                                      /\ tr[i].tgt = tr[slot].rc},
      copies |-> {i \in 1..Len(tr) : tr[i].call = "data_submit"
                                     /\ tr[i].tgt = tr[obj].rc},
      dev |-> b.dev, shadow |-> b.shadow]
PatchCases ==
  {<<al, k, o>> \in SectionLists \X (1..MaxCells) \X NestedOracles :
     k <= Len(al) /\ Has(al[k].type, "PTR_AND_OBJ")}

\* C32: for a PTR_AND_OBJ argument of target_data_begin the device copy of
\* the pointer slot is written once, after the device address of the
\* pointee has been obtained and after the copy of the pointee if there is
\* one; the value written is TgtPtrBegin - (HstPtrBegin - V), V the value of
\* the host slot, and the shadow entry of the slot holds V, the device
\* address of the slot and the value written.
C32_PointerPatch ==
  \A c \in PatchCases :
    LET al == c[1]
        k == c[2]
        p == PatchCase(al, k, c[3])
        val == p.tr[p.obj].rc - (al[k].begin - p.V)
    IN (~IsBulkEnabled /\ Pointing(al) /\ p.run) =>
         /\ Cardinality(p.gets) = 2
         /\ p.tr[p.slot].hst = al[k].base /\ p.tr[p.obj].hst = al[k].begin
         /\ Cardinality(p.patches) = 1
         /\ \A i \in p.patches : /\ p.obj < i
                                 /\ \A j \in p.copies : j < i
         /\ ReadPtr(p.dev, p.tr[p.slot].rc) = val
         /\ \E i \in 1..Len(p.shadow) :
              /\ p.shadow[i].HstPtrAddr = al[k].base
              /\ p.shadow[i].HstPtrVal = p.V
              /\ p.shadow[i].TgtPtrAddr = p.tr[p.slot].rc
              /\ p.shadow[i].TgtPtrVal = val
         /\ \A i, j \in 1..Len(p.shadow) :
              p.shadow[i].HstPtrAddr = p.shadow[j].HstPtrAddr => i = j

\* A begin has mapped the section of X behind the field q: the device slot
\* holds the device address of the first cell of X, one cell before the
\* section, and the shadow entry of q records it.
C32_Witness ==
  /\ last.op = "target_data_begin" /\ last.cause = OFFLOAD_SUCCESS
  /\ ~IsBulkEnabled
  /\ \E i \in 1..Len(ShadowPtrMap), e \in 1..Len(HostDataToTargetMap) :
       /\ ShadowPtrMap[i].HstPtrAddr = FieldQ
       /\ ShadowPtrMap[i].HstPtrVal = ArrayX
       /\ HostDataToTargetMap[e].HstPtrBegin = ArrayX + Cell
       /\ ShadowPtrMap[i].TgtPtrVal = HostDataToTargetMap[e].TgtPtrBegin - Cell
       /\ ReadPtr(devMem, ShadowPtrMap[i].TgtPtrAddr) = ShadowPtrMap[i].TgtPtrVal

(* ------------------ the pointer fields of an update ------------------- *)
\* The state after the first k arguments of target_data_update, or the
\* state of the failure that ended the call before.
RECURSIVE UpdatePrefix(_, _, _, _)
UpdatePrefix(st, al, k, o) ==
  IF k = 0 THEN st
  ELSE LET a == UpdatePrefix(st, al, k - 1, o) IN
       IF a.rc # OFFLOAD_SUCCESS \/ Skipped(al[k].type) THEN a
       ELSE UpdateArg(a, al, k, o)

\* The updates of the regions, and the struct S as a whole in each
\* direction and in both.
FieldLists ==
  UpdateLists \cup
  { <<Arg(StructS, StructS, 2 * SizeofPtr, f, 0)>> :
      f \in {{"FROM"}, {"TO"}, TF} }
UpdateCases ==
  {<<al, k, o>> \in FieldLists \X (1..MaxCells) \X RegionOracles :
     k <= Len(al) /\ ~Skipped(al[k].type)}
Calls(tr, name) == {i \in 1..Len(tr) : tr[i].call = name}

\* C33: after target_data_update has processed a mapped argument [lb, ub),
\* for every shadow entry with its slot in [lb, ub) the host slot holds the
\* recorded host value if the argument is copy-from and the device slot
\* holds the recorded device value if it is copy-to; with both flags the
\* copy from the device and the restoration of the host slots come before
\* the copy to the device.
C33_UpdatePointers ==
  \A c \in UpdateCases :
    LET al == c[1]
        k == c[2]
        a == UpdatePrefix(St, al, k - 1, c[3])
        b == UpdateArg(a, al, k, c[3])
        tr == SubSeq(b.drv, Len(a.drv) + 1, Len(b.drv))
        lb == al[k].begin
        ub == al[k].begin + al[k].size
    IN (/\ ~IsBulkEnabled
        /\ a.rc = OFFLOAD_SUCCESS /\ b.rc = OFFLOAD_SUCCESS
        /\ getTgtPtrBegin(a.map, al[k].begin, al[k].size) # NULL) =>
         /\ \A i \in 1..Len(b.shadow) :
              (lb <= b.shadow[i].HstPtrAddr /\ b.shadow[i].HstPtrAddr < ub) =>
                /\ Has(al[k].type, "FROM") =>
                     ReadPtr(b.host, b.shadow[i].HstPtrAddr) =
                       b.shadow[i].HstPtrVal
                /\ Has(al[k].type, "TO") =>
                     ReadPtr(b.dev, b.shadow[i].TgtPtrAddr) =
                       b.shadow[i].TgtPtrVal
         /\ (Has(al[k].type, "FROM") /\ Has(al[k].type, "TO")) =>
              \A i \in Calls(tr, "data_submit") :
                /\ \A j \in Calls(tr, "data_retrieve") : j < i
                /\ \A j \in Calls(tr, "shadow") : j < i

\* An update in both directions of the field q of a mapped struct has
\* restored the host slot and patched the device slot again.
C33_Witness ==
  /\ last.op = "target_data_update" /\ last.cause = OFFLOAD_SUCCESS
  /\ "restored" \in last.note
  /\ \E i \in 1..Len(ShadowPtrMap) :
       /\ ShadowPtrMap[i].HstPtrAddr = FieldQ
       /\ ShadowPtrMap[i].HstPtrVal # ShadowPtrMap[i].TgtPtrVal
       /\ ReadPtr(hostMem, FieldQ) = ShadowPtrMap[i].HstPtrVal
       /\ ReadPtr(devMem, ShadowPtrMap[i].TgtPtrAddr) = ShadowPtrMap[i].TgtPtrVal

(* ----------------------- the frame of an update ----------------------- *)
\* The cells of the arguments of al that are flagged literal or private.
SkippedCells(al) ==
  UNION {{a \in MemAddrs : al[k].begin <= a /\ a < al[k].begin + al[k].size} :
           k \in {j \in 1..Len(al) : Skipped(al[j].type)}}
\* The ranges a call looked up, in the order of the lookups.
RECURSIVE LookupsOf(_)
LookupsOf(drv) ==
  IF drv = <<>> THEN <<>>
  ELSE IF drv[1].call = "getTgtPtrBegin"
       THEN <<drv[1].hst>> \o LookupsOf(Tail(drv))
       ELSE LookupsOf(Tail(drv))
\* The begin addresses of the arguments of al that are not skipped.
RECURSIVE ProcessedOf(_)
ProcessedOf(al) ==
  IF al = <<>> THEN <<>>
  ELSE IF Skipped(al[1].type) THEN ProcessedOf(Tail(al))
       ELSE <<al[1].begin>> \o ProcessedOf(Tail(al))

\* C34: target_data_update adds and removes no entry of the map, changes no
\* reference count, adds and erases no shadow entry, and does nothing for
\* an argument flagged literal or private: it looks up the other arguments
\* only, and the cells of a skipped argument keep their values on the host
\* and on the device.
C34_UpdateFrame ==
  \A al \in UpdateLists, o \in RegionOracles :
    LET r == target_data_update(St, al, o) IN
    ~IsBulkEnabled =>
      /\ r.map = HostDataToTargetMap
      /\ r.shadow = ShadowPtrMap
      /\ IsPrefix(LookupsOf(r.drv), ProcessedOf(al))
      /\ r.rc = OFFLOAD_SUCCESS => LookupsOf(r.drv) = ProcessedOf(al)
      /\ \A a \in SkippedCells(al) :
           /\ r.host[a] = hostMem[a]
           /\ getTgtPtrBegin(r.map, a, Cell) # NULL =>
                r.dev[getTgtPtrBegin(r.map, a, Cell)] =
                  devMem[getTgtPtrBegin(r.map, a, Cell)]

\* An update has moved data of a mapped struct in both directions; the
\* struct and its pointees are mapped with counted references and the
\* shadow entries of both fields are in place.
C34_Witness ==
  /\ last.op = "target_data_update" /\ last.cause = OFFLOAD_SUCCESS
  /\ "restored" \in last.note
  /\ Len(ShadowPtrMap) = 2
  /\ \E e \in 1..Len(HostDataToTargetMap) :
       /\ HostDataToTargetMap[e].HstPtrBegin = StructS
       /\ HostDataToTargetMap[e].RefCount \in 1..MaxRef
  /\ \E e \in 1..Len(HostDataToTargetMap) :
       HostDataToTargetMap[e].HstPtrBegin = ArrayX

(* ------------------- the argument vector of a launch ------------------ *)
\* The arguments of al flagged TARGET_PARAM, and the number of them before
\* argument k.
Params(al) == {k \in 1..Len(al) : Has(al[k].type, "TARGET_PARAM")}
ParamsBefore(al, k) == Cardinality({j \in Params(al) : j < k})
\* The entries the translation mode appends, in the order table, mask,
\* offset list; the table and the offset list are at SegmentList.TgtMemPtr.
AuxEntries(mode, TgtMemPtr_) ==
  (IF "AT_TABLE" \in mode THEN <<TgtMemPtr_>> ELSE <<>>)
  \o (IF "AT_MASK" \in mode THEN <<H2DMask>> ELSE <<>>)
  \o (IF "AT_OFFSET" \in mode THEN <<TgtMemPtr_>> ELSE <<>>)

\* C35: at the launch tgt_args and tgt_offsets have the same length; they
\* hold one entry for each argument flagged TARGET_PARAM, in ascending
\* order of the arguments, followed by the entries of the translation mode
\* and nothing else; tgtArgsPositions[i] is the position of the entry of
\* argument i, or -1 when the argument is not flagged.
C35_ArgumentVector ==
  \A al \in TargetLists, o \in TargetOracles :
    LET r == target(St, TRUE, al, o)
        L == r.drv[CHOOSE i \in LaunchOf(r.drv) : TRUE]
        n == Cardinality(Params(al))
        aux == AuxEntries(ATMode, L.TgtMemPtr)
    IN (calls < MaxLaunches /\ WellFormed(al) /\ Launched(r.drv)) =>
         /\ Len(L.args) = Len(L.offsets)
         /\ Len(L.args) = n + Len(aux)
         /\ SubSeq(L.args, n + 1, Len(L.args)) = aux
         /\ \A i \in n + 1..Len(L.offsets) : L.offsets[i] = 0
         /\ DOMAIN L.positions = 1..Len(al)
         /\ \A k \in 1..Len(al) :
              L.positions[k] =
                IF k \in Params(al) THEN ParamsBefore(al, k) ELSE -1
         /\ \A k \in Params(al) :
              /\ Has(al[k].type, "LITERAL") =>
                   L.args[L.positions[k] + 1] = al[k].base
              /\ L.offsets[L.positions[k] + 1] =
                   IF Has(al[k].type, "LITERAL") \/ Has(al[k].type, "PTR_AND_OBJ")
                   THEN 0 ELSE al[k].base - al[k].begin

\* A kernel with three parameters was launched on a device that passes the
\* offset list: four entries.
C35_Witness ==
  /\ last.op = "target" /\ "launched" \in last.note
  /\ ATMode = {"AT_OFFSET"}
  /\ last.nargs = 4

(* ------------------------ begin / end balance ------------------------- *)
NoDelete(al) == \A k \in 1..Len(al) : ~Has(al[k].type, "DELETE")
\* The device addresses a call allocated and has not freed.
Owing(drv) ==
  {drv[i].tgt : i \in {j \in 1..Len(drv) : drv[j].call = "data_alloc"}}
    \ ({drv[i].tgt : i \in {j \in 1..Len(drv) : drv[j].call = "data_delete"}}
       \cup {NULL})
\* target_data_begin and then target_data_end over al, both successful,
\* leave the map as it was and no device memory of theirs allocated.
Balanced(al, o) ==
  LET b == target_data_begin(St, al, o)
      e == target_data_end(b, al, o)
  IN (/\ Pointing(al) /\ NoDelete(al)
      /\ b.rc = OFFLOAD_SUCCESS /\ e.rc = OFFLOAD_SUCCESS) =>
       /\ e.map = HostDataToTargetMap
       /\ Owing(e.drv) = {}

\* C36: a successful target_data_begin followed by a successful
\* target_data_end over the same list without delete flags returns the map
\* to its state before the begin: the entries that existed have their
\* reference counts, and the entries the begin created, that of the pointer
\* slot of a PTR_AND_OBJ argument included, are removed and freed.
C36_Balance ==
  \A al \in SectionLists \cup {OddStruct}, o \in NestedOracles : Balanced(al, o)

\* The same of the lists in which the slot of every pointer lies in another
\* argument, the struct, when the begin obtained every mapping it asked for.
BalancedInStruct ==
  \A al \in {SectionArgs, StructArgs, OddStruct}, o \in NestedOracles :
    LET b == target_data_begin(St, al, o) IN
    (\A i \in 1..Len(b.drv) : ~NullAlloc(b.drv, i)) => Balanced(al, o)

====
